---- MODULE Spec2Model ----
(***************************************************************************)
(* A model of the umbralux ray tracer: the Matrix type of src/matrix.rs,   *)
(* the tuples of src/core.rs, rays, spheres and planes, find_hit, the      *)
(* World and the lighting function.                                        *)
(*                                                                         *)
(* Numbers.  An f64 is modelled as an exact rational [n |-> p, d |-> q]    *)
(* in lowest terms with q > 0, or as one of the three non-finite values a  *)
(* division by zero produces: [n |-> 1, d |-> 0] (+inf),                   *)
(* [n |-> -1, d |-> 0] (-inf) and [n |-> 0, d |-> 0] (NaN).  Rounding and  *)
(* the sign of zero are not modelled.                                      *)
(***************************************************************************)
EXTENDS Integers, Sequences, FiniteSets, TLC

\* heap:        the objects allocated by the caller (Rc<dyn Object3D>), by address
\* patterns:    the patterns allocated by the caller (Rc<dyn Pattern>), by address
\* objects:     World.objects, a sequence of addresses into heap
\* light:       World.light
\* pc:          what the caller did last
\* input:       the arguments of the last call
\* output:      the value the last call returned (Panic when it aborted)
\* intersected: how often the last call ran Object3D::intersect
\* cam:         the Camera whose render is running, None outside of render
\* canvas:      the Canvas `ret` that render fills
\* pixel:       the x and y of the loops of render
\* writes:      the cells render has passed to set_pixel, in the order of the calls
VARIABLES heap, patterns, objects, light, pc, input, output, intersected, cam, canvas, pixel, writes

vars == <<heap, patterns, objects, light, pc, input, output, intersected, cam, canvas, pixel, writes>>

\* the variables of Camera::render
render_vars == <<cam, canvas, pixel, writes>>

-----------------------------------------------------------------------------
(* f64 arithmetic *)

Abs(i) == IF i < 0 THEN -i ELSE i

Sgn(i) == IF i < 0 THEN -1 ELSE IF i = 0 THEN 0 ELSE 1

RECURSIVE GCD(_, _)
GCD(a, b) == IF b = 0 THEN a ELSE GCD(b, a % b)

Rat(p, q) ==
    LET g == GCD(Abs(p), Abs(q))
    IN  [n |-> Sgn(q) * (p \div g), d |-> Abs(q) \div g]

Num(i) == [n |-> i, d |-> 1]

NaN == [n |-> 0, d |-> 0]

Inf(s) == [n |-> s, d |-> 0]

IsNaN(a) == a.d = 0 /\ a.n = 0

IsInf(a) == a.d = 0 /\ a.n # 0

IsFinite(a) == a.d # 0

RNeg(a) == [n |-> -a.n, d |-> a.d]

RAdd(a, b) ==
    IF IsNaN(a) \/ IsNaN(b) THEN NaN
    ELSE IF IsInf(a) /\ IsInf(b) THEN (IF a.n = b.n THEN a ELSE NaN)
    ELSE IF IsInf(a) THEN a
    ELSE IF IsInf(b) THEN b
    ELSE LET g == GCD(a.d, b.d)
         IN  Rat(a.n * (b.d \div g) + b.n * (a.d \div g), (a.d \div g) * b.d)

RSub(a, b) == RAdd(a, RNeg(b))

RMul(a, b) ==
    IF IsNaN(a) \/ IsNaN(b) THEN NaN
    ELSE IF IsInf(a) \/ IsInf(b)
         THEN (IF a.n = 0 \/ b.n = 0 THEN NaN ELSE Inf(Sgn(a.n) * Sgn(b.n)))
    ELSE LET g1 == GCD(Abs(a.n), b.d)
             g2 == GCD(Abs(b.n), a.d)
         IN  [n |-> (a.n \div g1) * (b.n \div g2),
              d |-> (a.d \div g2) * (b.d \div g1)]

RDiv(a, b) ==
    IF IsNaN(a) \/ IsNaN(b) THEN NaN
    ELSE IF IsInf(b) THEN (IF IsInf(a) THEN NaN ELSE Num(0))
    ELSE IF IsInf(a) THEN Inf(a.n * (IF b.n < 0 THEN -1 ELSE 1))
    ELSE IF b.n = 0 THEN (IF a.n = 0 THEN NaN ELSE Inf(Sgn(a.n)))
    ELSE RMul(a, [n |-> Sgn(b.n) * b.d, d |-> Abs(b.n)])

\* a < b on f64: false as soon as one side is NaN
RLt(a, b) ==
    IF IsNaN(a) \/ IsNaN(b) THEN FALSE
    ELSE IF IsInf(a) \/ IsInf(b)
         THEN (IF IsInf(a) /\ IsInf(b) THEN a.n < b.n
               ELSE IF IsInf(a) THEN a.n < 0 ELSE b.n > 0)
    ELSE a.n * b.d < b.n * a.d

\* a == b on f64: NaN is equal to nothing
REq(a, b) == ~IsNaN(a) /\ ~IsNaN(b) /\ a = b

RLe(a, b) == RLt(a, b) \/ REq(a, b)

RGe(a, b) == RLe(b, a)

RGt(a, b) == RLt(b, a)

RAbs(a) == [n |-> Abs(a.n), d |-> a.d]

\* the largest r in lo..hi with r * r <= i, by bisection
RECURSIVE ISqrtBetween(_, _, _)
ISqrtBetween(i, lo, hi) ==
    IF lo >= hi THEN lo
    ELSE LET mid == (lo + hi + 1) \div 2
         IN  IF mid * mid <= i THEN ISqrtBetween(i, mid, hi)
             ELSE ISqrtBetween(i, lo, mid - 1)

\* the largest r with r * r <= i (46340 is the largest r whose square fits
\* 31 bits)
ISqrt(i) == ISqrtBetween(i, 0, IF i < 46340 THEN i ELSE 46340)

\* f64::sqrt: exact on the squares of rationals, rounded down to a multiple
\* of 1/d otherwise
RSqrt(a) ==
    IF IsNaN(a) \/ a.n < 0 THEN NaN
    ELSE IF IsInf(a) THEN a
    ELSE LET rn == ISqrt(a.n)
             rd == ISqrt(a.d)
         IN  IF rn * rn = a.n /\ rd * rd = a.d THEN [n |-> rn, d |-> rd]
             ELSE Rat(ISqrt(a.n * a.d), a.d)

\* f64::powf for the whole exponents the model uses
RECURSIVE RPow(_, _)
RPow(a, k) ==
    IF k = 0 THEN Num(1)
    ELSE LET h == RPow(a, k \div 2)
         IN  IF k % 2 = 0 THEN RMul(h, h) ELSE RMul(a, RMul(h, h))

-----------------------------------------------------------------------------
(* Result<T> and panics *)

Ok(v) == [ok |-> TRUE, val |-> v]

Err(msg) == [ok |-> FALSE, err |-> msg]

\* a panic (an unwrap of None or Err, an index out of bounds) aborts the
\* operation: the call yields Panic in place of its value, Aborted when the
\* value would have been a Vec; and a call one of whose arguments is Panic
\* or Aborted yields Panic or Aborted in turn, since the panic has aborted
\* the caller
Panic == [panic |-> TRUE]

Aborted == <<Panic>>

\* a value a call returned, as opposed to Panic
Return(b) == [val |-> b]

-----------------------------------------------------------------------------
(* Matrix<T>, src/matrix.rs.  Rows and columns are numbered from 0 as in   *)
(* the source; elements is a sequence of rows.                             *)

Range0(k) == 0..(k - 1)

Matrix(n, m, elements) == [n |-> n, m |-> m, elements |-> elements]

new(n, m) == Matrix(n, m, [r \in 1..n |-> [c \in 1..m |-> Num(0)]])

size(M) == <<M.n, M.m>>

get(M, row, col) == M.elements[row + 1][col + 1]

set(M, row, col, value) ==
    [M EXCEPT !.elements[row + 1][col + 1] = value]

identity(n) ==
    Matrix(n, n, [r \in 1..n |-> [c \in 1..n |-> IF r = c THEN Num(1) ELSE Num(0)]])

\* the rows of M but `row`, each without column `col`
sub_matrix(M, row, col) ==
    LET keptRows == [k \in 1..(M.n - 1) |-> IF k - 1 < row THEN k - 1 ELSE k]
        keptCols == [k \in 1..(M.m - 1) |-> IF k - 1 < col THEN k - 1 ELSE k]
    IN  Matrix(M.n - 1, M.m - 1,
               [r \in 1..(M.n - 1) |->
                   [c \in 1..(M.m - 1) |-> get(M, keptRows[r], keptCols[c])]])

\* ret = vals1[0] * vals2[0]; for i in 1..n { ret = ret + vals1[i] * vals2[i] }
RECURSIVE SumOfProductsUpTo(_, _, _)
SumOfProductsUpTo(k, vals1, vals2) ==
    IF k = 1 THEN RMul(vals1[1], vals2[1])
    ELSE RAdd(SumOfProductsUpTo(k - 1, vals1, vals2), RMul(vals1[k], vals2[k]))

sum_of_products(n, vals1, vals2) ==
    IF Len(vals1) = 0 \/ Len(vals2) = 0 \/ Len(vals1) < n \/ Len(vals2) < n
    THEN Panic
    ELSE SumOfProductsUpTo(IF n < 1 THEN 1 ELSE n, vals1, vals2)

column(M, col) == [i \in 1..M.n |-> get(M, i - 1, col)]

\* Ok(Matrix { n: n1, m: m2, elements: new_elements })
MultiplyResult(n, m, new_elements) ==
    IF \E row \in 1..n : \E col \in 1..m : new_elements[row][col] = Panic
    THEN Panic
    ELSE Ok(Matrix(n, m, new_elements))

multiply(A, B) ==
    IF A.m # B.n
    THEN Err("Matrix sizes do not match for multiplication")
    ELSE MultiplyResult(A.n, B.m,
             [row \in 1..A.n |-> [col \in 1..B.m |->
                 sum_of_products(A.m, A.elements[row], column(B, col - 1))]])

transpose(M) ==
    Matrix(M.m, M.n, [c \in 1..M.m |-> [r \in 1..M.n |-> get(M, r - 1, c - 1)]])

\* the loop of determinant over the columns 0..col-1 of row 0:
\* <<ret, sign>> after `col` rounds
RECURSIVE determinant(_)
RECURSIVE DetLoop(_, _)
DetLoop(M, col) ==
    IF col = 0 THEN <<Num(0), Num(1)>>
    ELSE LET prev == DetLoop(M, col - 1)
             ret  == prev[1]
             sign == prev[2]
         IN  <<RAdd(ret, RMul(RMul(sign, get(M, 0, col - 1)),
                              determinant(sub_matrix(M, 0, col - 1)).val)),
               RSub(Num(0), sign)>>

determinant(M) ==
    IF M.n # M.m
    THEN Err("Determinant can not be calculated for non-square matrices")
    ELSE IF M.n = 1 THEN Ok(M.elements[1][1])
    ELSE Ok(DetLoop(M, M.m)[1])

invert(M) ==
    IF M.n # M.m
    THEN Err("Non-sqare matrices can not be inverted")
    ELSE LET det == determinant(M).val
         IN  Ok(Matrix(M.m, M.n,
                  [c \in 1..M.m |-> [r \in 1..M.n |->
                      LET det_sub == determinant(sub_matrix(M, r - 1, c - 1)).val
                          sign == IF (r - 1 + c - 1) % 2 = 0
                                  THEN Num(1) ELSE RSub(Num(0), Num(1))
                      IN  RDiv(RMul(sign, det_sub), det)]]))

\* derive(PartialEq) on Matrix<f64>: the sizes and every element by f64 ==
MatrixEq(A, B) ==
    /\ A.n = B.n
    /\ A.m = B.m
    /\ Len(A.elements) = Len(B.elements)
    /\ \A r \in 1..Len(A.elements) :
          /\ Len(A.elements[r]) = Len(B.elements[r])
          /\ \A c \in 1..Len(A.elements[r]) :
                REq(A.elements[r][c], B.elements[r][c])

-----------------------------------------------------------------------------
(* Point, Vector and Color, src/core.rs *)

Point(x, y, z) == [x |-> x, y |-> y, z |-> z]

Vector(x, y, z) == [x |-> x, y |-> y, z |-> z]

Color(red, green, blue) == [red |-> red, green |-> green, blue |-> blue]

\* Point + Vector, Vector + Vector
TAdd(a, b) == [x |-> RAdd(a.x, b.x), y |-> RAdd(a.y, b.y), z |-> RAdd(a.z, b.z)]

\* Point - Point, Point - Vector, Vector - Vector
TSub(a, b) == [x |-> RSub(a.x, b.x), y |-> RSub(a.y, b.y), z |-> RSub(a.z, b.z)]

\* f64 * Vector, Vector * f64
TScale(v, k) == [x |-> RMul(v.x, k), y |-> RMul(v.y, k), z |-> RMul(v.z, k)]

dot(a, b) == RAdd(RAdd(RMul(a.x, b.x), RMul(a.y, b.y)), RMul(a.z, b.z))

magnitude(v) == RSqrt(dot(v, v))

normalize(v) ==
    IF v = Panic THEN Panic
    ELSE Vector(RDiv(v.x, magnitude(v)), RDiv(v.y, magnitude(v)),
                RDiv(v.z, magnitude(v)))

\* self - 2.0 * surface_norm * self.dot(surface_norm)
ReflectAbout(v, surface_norm) ==
    TSub(v, TScale(TScale(surface_norm, Num(2)), dot(v, surface_norm)))

reflect(v, surface) == ReflectAbout(v, normalize(surface))

CAdd(a, b) ==
    Color(RAdd(a.red, b.red), RAdd(a.green, b.green), RAdd(a.blue, b.blue))

CSub(a, b) ==
    Color(RSub(a.red, b.red), RSub(a.green, b.green), RSub(a.blue, b.blue))

CScale(c, k) == Color(RMul(c.red, k), RMul(c.green, k), RMul(c.blue, k))

\* Color * Color, the Hadamard product
CMul(a, b) ==
    Color(RMul(a.red, b.red), RMul(a.green, b.green), RMul(a.blue, b.blue))

black == Color(Num(0), Num(0), Num(0))

\* From<Point> for Matrix<f64>: the 4 x 1 column with 1.0 in the last row
PointToMatrix(p) == Matrix(4, 1, <<<<p.x>>, <<p.y>>, <<p.z>>, <<Num(1)>>>>)

\* From<Vector> for Matrix<f64>: the 4 x 1 column with 0.0 in the last row
VectorToMatrix(v) == Matrix(4, 1, <<<<v.x>>, <<v.y>>, <<v.z>>, <<Num(0)>>>>)

\* TryFrom<Matrix<f64>> for Point and for Vector
TupleFromMatrix(value) ==
    IF value.n < 3 \/ value.m # 1 THEN Err("Invalid matrix size")
    ELSE Ok([x |-> get(value, 0, 0), y |-> get(value, 1, 0), z |-> get(value, 2, 0)])

-----------------------------------------------------------------------------
(* src/transform.rs *)

\* match T::try_from(transformed)
TransformConverted(ret) == IF ret.ok THEN ret ELSE Err("Conversion failed")

\* let transformed = trans.multiply(&m)?
TransformMultiplied(transformed) ==
    IF transformed = Panic THEN Panic
    ELSE IF ~transformed.ok THEN transformed
    ELSE TransformConverted(TupleFromMatrix(transformed.val))

\* transform(value, trans) for a Point (isPoint) or a Vector
transform(value, isPoint, trans) ==
    IF value = Panic \/ trans = Panic THEN Panic
    ELSE TransformMultiplied(
             multiply(trans, IF isPoint THEN PointToMatrix(value)
                             ELSE VectorToMatrix(value)))

\* Result::unwrap
unwrap(res) == IF res = Panic \/ ~res.ok THEN Panic ELSE res.val

translation(dx, dy, dz) ==
    set(set(set(identity(4), 0, 3, dx), 1, 3, dy), 2, 3, dz)

scaling(sx, sy, sz) ==
    set(set(set(identity(4), 0, 0, sx), 1, 1, sy), 2, 2, sz)

\* the transformations of the objects and patterns of the model's scenes
Transformations ==
    {identity(4),
     translation(Num(0), Num(-1), Num(0)),
     scaling(Num(2), Num(2), Num(2))}

\* self.transformation.invert(): the inverse of a scene's transformation is
\* the value of invert, computed once for the whole scene; the inverse of
\* any other matrix is computed on the spot
Inverses == [M \in Transformations |-> invert(M)]

inverted(M) == IF M \in Transformations THEN Inverses[M] ELSE invert(M)

-----------------------------------------------------------------------------
(* Ray, src/objects/ray.rs *)

Ray(origin, direction) == [origin |-> origin, direction |-> direction]

position(ray, t) == TAdd(ray.origin, TScale(ray.direction, t))

\* Ray { origin, direction }
RayOf(origin, direction) ==
    IF origin = Panic \/ direction = Panic THEN Panic ELSE Ray(origin, direction)

ray_transform(ray, m) ==
    RayOf(unwrap(transform(ray.origin, TRUE, m)),
          unwrap(transform(ray.direction, FALSE, m)))

-----------------------------------------------------------------------------
(* Option<T> *)

None == [none |-> TRUE]

\* no render is running
NoRender == cam = None /\ canvas = None /\ pixel = None /\ writes = <<>>

\* Rc<T>: a reference is the address of the value it shares
Ref(addr) == [ref |-> addr]

-----------------------------------------------------------------------------
(* Patterns, src/features/pattern.rs *)

SolidPattern(color) == [kind |-> "Solid", color |-> color]

NestedPattern(kind, pattern_a, pattern_b) ==
    [kind |-> kind, pattern_a |-> pattern_a, pattern_b |-> pattern_b,
     transformation |-> identity(4)]

\* TwoColorPattern::new: a NestedPattern over two SolidPatterns
TwoColorPattern(kind, color_a, color_b) ==
    NestedPattern(kind, SolidPattern(color_a), SolidPattern(color_b))

\* f64::floor, for finite values
RFloor(a) == a.n \div a.d

\* the remainder of i64 % 2, which has the sign of the dividend
Rem2(i) == IF i >= 0 THEN i % 2 ELSE -((-i) % 2)

pattern_transformation(pattern) ==
    IF pattern.kind = "Solid" THEN identity(4) ELSE pattern.transformation

RECURSIVE color_at(_, _)
\* stripes_color_at as it would be if x were truncated towards zero
stripes_color_at_truncated(pattern, pt) ==
    IF ~IsFinite(pt.x) THEN Panic
    ELSE IF Rem2(IF pt.x.n >= 0 THEN RFloor(pt.x) ELSE -RFloor(RNeg(pt.x))) = 0
         THEN color_at(pattern.pattern_a, pt)
         ELSE color_at(pattern.pattern_b, pt)

\* checkers3d_color_at as it would be with the floor of the sum of the
\* coordinates
checkers3d_color_at_floor_of_sum(pattern, pt) ==
    IF Rem2(RFloor(RAdd(pt.x, RAdd(pt.y, pt.z)))) = 0
    THEN color_at(pattern.pattern_a, pt)
    ELSE color_at(pattern.pattern_b, pt)

stripes_color_at(pattern, pt) ==
    IF ~IsFinite(pt.x) THEN Panic
    ELSE IF Rem2(RFloor(pt.x)) = 0
         THEN color_at(pattern.pattern_a, pt)
         ELSE color_at(pattern.pattern_b, pt)

gradient_color_at(pattern, pt) ==
    LET ca == color_at(pattern.pattern_a, pt)
        cb == color_at(pattern.pattern_b, pt)
    IN  IF ca = Panic \/ cb = Panic THEN Panic
        ELSE LET gradient == CSub(cb, ca)
                 fraction == IF IsFinite(pt.x)
                             THEN RSub(pt.x, Num(RFloor(pt.x))) ELSE NaN
             IN  CAdd(ca, CScale(gradient, fraction))

ring_color_at(pattern, pt) ==
    LET r == RSqrt(RAdd(RMul(pt.x, pt.x), RMul(pt.z, pt.z)))
    IN  IF ~IsFinite(r) THEN Panic
        ELSE IF Rem2(RFloor(r)) = 0
             THEN color_at(pattern.pattern_a, pt)
             ELSE color_at(pattern.pattern_b, pt)

checkers3d_color_at(pattern, pt) ==
    LET value == IF IsFinite(pt.x) /\ IsFinite(pt.y) /\ IsFinite(pt.z)
                 THEN RFloor(pt.x) + RFloor(pt.y) + RFloor(pt.z)
                 ELSE 0
    IN  IF Rem2(value) = 0
        THEN color_at(pattern.pattern_a, pt)
        ELSE color_at(pattern.pattern_b, pt)

color_at(pattern, pt) ==
    IF pt = Panic THEN Panic
    ELSE CASE pattern.kind = "Solid"      -> pattern.color
           [] pattern.kind = "Stripes"    -> stripes_color_at(pattern, pt)
           [] pattern.kind = "Gradient"   -> gradient_color_at(pattern, pt)
           [] pattern.kind = "Ring"       -> ring_color_at(pattern, pt)
           [] pattern.kind = "Checkers3D" -> checkers3d_color_at(pattern, pt)

\* color_at_object as it would be with the pattern's inverse first
color_at_object_pattern_first(pattern, object, pt) ==
    color_at(pattern,
             unwrap(transform(
                 unwrap(transform(pt, TRUE,
                                  unwrap(inverted(pattern_transformation(pattern))))),
                 TRUE, unwrap(inverted(object.transformation)))))

\* Pattern::color_at_object: the object's inverse first, the pattern's second
color_at_object(pattern, object, pt) ==
    color_at(pattern,
             unwrap(transform(
                 unwrap(transform(pt, TRUE,
                                  unwrap(inverted(object.transformation)))),
                 TRUE, unwrap(inverted(pattern_transformation(pattern))))))

-----------------------------------------------------------------------------
(* Material, src/features/material.rs *)

Material(color, pattern, ambient, diffuse, specular, shininess) ==
    [color |-> color, pattern |-> pattern, ambient |-> ambient,
     diffuse |-> diffuse, specular |-> specular, shininess |-> shininess]

\* MaterialBuilder::new().build()
DefaultMaterial ==
    Material(Color(Num(1), Num(1), Num(1)), None,
             Rat(1, 10), Rat(9, 10), Rat(9, 10), 200)

-----------------------------------------------------------------------------
(* Sphere and Plane, src/objects/sphere.rs and src/objects/plane.rs *)

Sphere(origin, radius) ==
    [kind |-> "Sphere", origin |-> origin, radius |-> radius,
     transformation |-> identity(4), material |-> DefaultMaterial]

new_unit == Sphere(Point(Num(0), Num(0), Num(0)), Num(1))

Plane ==
    [kind |-> "Plane", transformation |-> identity(4), material |-> DefaultMaterial]

change_transformation(object, transformation) ==
    [object EXCEPT !.transformation = transformation]

\* change_material as it would be if it kept the pattern the object had
change_material_keeping_pattern(object, material) ==
    [object EXCEPT !.material = [material EXCEPT !.pattern = object.material.pattern]]

change_material(object, material) ==
    [object EXCEPT !.material = material]

\* Sphere::local_intersect as it would be if a tangent ray had no root
SphereLocalIntersectSecant(sphere, local_ray) ==
    LET d == TSub(local_ray.origin, sphere.origin)
        b2 == dot(local_ray.direction, local_ray.direction)
        p == RDiv(dot(local_ray.direction, d), b2)
        x == RSub(RMul(p, p), RDiv(RSub(dot(d, d), RMul(sphere.radius, sphere.radius)), b2))
    IN  IF RGt(x, Num(0))
        THEN <<RSub(RNeg(p), RSqrt(x)), RAdd(RNeg(p), RSqrt(x))>>
        ELSE <<>>

SphereLocalIntersect(sphere, local_ray) ==
    LET a  == local_ray.origin
        b  == local_ray.direction
        c  == sphere.origin
        d  == TSub(a, c)
        b2 == dot(b, b)
        p  == RDiv(dot(b, d), b2)
        q  == RDiv(RSub(dot(d, d), RMul(sphere.radius, sphere.radius)), b2)
        x  == RSub(RMul(p, p), q)
    IN  IF RGe(x, Num(0))
        THEN <<RSub(RNeg(p), RSqrt(x)), RAdd(RNeg(p), RSqrt(x))>>
        ELSE <<>>

\* |v| < f64::EPSILON (2^-52).  The finite values of the model are rationals
\* whose denominators fit 31 bits, so only zero is that small.
LtEpsilon(v) == IsFinite(v) /\ v.n = 0

\* Plane::local_intersect as it would be if roots behind the ray were dropped
PlaneLocalIntersectAhead(plane, local_ray) ==
    IF LtEpsilon(RAbs(local_ray.direction.y)) \/ RLt(RDiv(RNeg(local_ray.origin.y), local_ray.direction.y), Num(0))
    THEN <<>>
    ELSE <<RDiv(RNeg(local_ray.origin.y), local_ray.direction.y)>>

PlaneLocalIntersect(plane, local_ray) ==
    LET dir_y == local_ray.direction.y
    IN  IF LtEpsilon(RAbs(dir_y)) THEN <<>>
        ELSE <<RDiv(RMul(Num(-1), local_ray.origin.y), dir_y)>>

local_intersect(object, local_ray) ==
    IF local_ray = Panic THEN Aborted
    ELSE IF object.kind = "Sphere" THEN SphereLocalIntersect(object, local_ray)
    ELSE PlaneLocalIntersect(object, local_ray)

local_normal_at(object, local_point) ==
    IF local_point = Panic THEN Panic
    ELSE IF object.kind = "Sphere" THEN TSub(local_point, object.origin)
    ELSE Vector(Num(0), Num(1), Num(0))

-----------------------------------------------------------------------------
(* Object3D and Intersection, src/objects/object3d.rs *)

intersect(object, ray) ==
    local_intersect(object,
        ray_transform(ray, unwrap(inverted(object.transformation))))

\* normal_at from `let local_point = ...`
NormalAtInverse(object, pt, t_inv) ==
    IF t_inv = Panic THEN Panic
    ELSE normalize(unwrap(transform(
             local_normal_at(object, unwrap(transform(pt, TRUE, t_inv))),
             FALSE, transpose(t_inv))))

normal_at(object, pt) ==
    NormalAtInverse(object, pt, unwrap(inverted(object.transformation)))

\* partner is the address of the object: Intersection holds an Rc to it
Intersection(ray, t, partner) == [ray |-> ray, t |-> t, partner |-> partner]

\* .iter().map(|t| Intersection::new(ray, *t, partner)).collect()
IntersectionsOf(ray, ts, partner) ==
    IF ts = Aborted THEN Aborted
    ELSE [i \in 1..Len(ts) |-> Intersection(ray, ts[i], partner)]

find_intersections(h, ray, partner) ==
    IntersectionsOf(ray, intersect(h[partner], ray), partner)

\* ret.append(&mut intersections)
append(ret, intersections) ==
    IF ret = Aborted \/ intersections = Aborted THEN Aborted
    ELSE ret \o intersections

RECURSIVE find_many_intersections(_, _, _)
find_many_intersections(h, ray, partners) ==
    IF partners = <<>> THEN <<>>
    ELSE append(find_many_intersections(h, ray,
                    SubSeq(partners, 1, Len(partners) - 1)),
                find_intersections(h, ray, partners[Len(partners)]))

\* one round of the loop of find_hit as it would be if it compared with <: of
\* equal parameters it would keep the last one seen
FindHitStepLast(ret, intersection) ==
    IF RLt(intersection.t, Num(0)) THEN ret
    ELSE IF ret = None THEN intersection
    ELSE IF RLt(ret.t, intersection.t) THEN ret
    ELSE intersection

\* one round of the loop of find_hit: the new ret
FindHitStep(ret, intersection) ==
    IF RLt(intersection.t, Num(0)) THEN ret
    ELSE IF ret = None THEN intersection
    ELSE IF RLe(ret.t, intersection.t) THEN ret
    ELSE intersection

\* the loop of find_hit: ret after the first k intersections
RECURSIVE FindHitLoop(_, _)
FindHitLoop(intersections, k) ==
    IF k = 0 THEN None
    ELSE FindHitStep(FindHitLoop(intersections, k - 1), intersections[k])

\* find_hit as it would be if it took the list to be sorted: the first
\* intersection that is not negative
find_hit_first(intersections) ==
    IF intersections = Aborted THEN Panic
    ELSE IF \E i \in 1..Len(intersections) : RGe(intersections[i].t, Num(0))
    THEN intersections[CHOOSE i \in 1..Len(intersections) :
             /\ RGe(intersections[i].t, Num(0))
             /\ \A j \in 1..(i - 1) : ~RGe(intersections[j].t, Num(0))]
    ELSE None

find_hit(intersections) ==
    IF intersections = Aborted THEN Panic
    ELSE FindHitLoop(intersections, Len(intersections))

\* the offset of over_point.  The source moves the hit point by 1.0E-5 of the
\* normal; the model moves it by 1.0E-3, which keeps the squares the shadow
\* ray is intersected with within TLC's 32-bit integers
AcneCorrection == Rat(1, 1000)

ComputationResult(t, ray, object, point, over_point, eye_dir, normal, inside) ==
    [t |-> t, ray |-> ray, object |-> object, point |-> point,
     over_point |-> over_point, eye_dir |-> eye_dir, normal |-> normal,
     inside |-> inside]

\* prepare_computations from `if inside`
PrepareComputationsInside(intersection, pt, eye_dir, normal, inside) ==
    ComputationResult(intersection.t, intersection.ray, intersection.partner,
                      pt, TAdd(pt, TScale(normal, AcneCorrection)),
                      eye_dir, normal, inside)

\* prepare_computations from `let inside = ...` as it would be if the normal
\* were never flipped
PrepareComputationsUnflipped(intersection, pt, eye_dir, normal) ==
    IF normal = Panic THEN Panic
    ELSE PrepareComputationsInside(intersection, pt, eye_dir, normal, RLt(dot(eye_dir, normal), Num(0)))

\* prepare_computations from `let inside = ...`
PrepareComputationsNormal(intersection, pt, eye_dir, normal) ==
    IF normal = Panic THEN Panic
    ELSE PrepareComputationsInside(
             intersection, pt, eye_dir,
             IF RLt(dot(eye_dir, normal), Num(0))
             THEN TScale(normal, Num(-1)) ELSE normal,
             RLt(dot(eye_dir, normal), Num(0)))

\* prepare_computations from `let mut normal = ...`
PrepareComputationsAt(h, intersection, pt, eye_dir) ==
    PrepareComputationsNormal(
        intersection, pt, eye_dir,
        normalize(normal_at(h[intersection.partner], pt)))

prepare_computations(h, intersection) ==
    IF intersection = Panic THEN Panic
    ELSE PrepareComputationsAt(
             h, intersection,
             position(intersection.ray, intersection.t),
             TScale(normalize(intersection.ray.direction), Num(-1)))

-----------------------------------------------------------------------------
(* PointLight and lighting, src/features/light.rs *)

PointLight(intensity, pos) == [intensity |-> intensity, position |-> pos]

\* the terms of lighting without the test of in_shadow
LightingTermsUnshadowed(material, lt, in_shadow, effective_color, light_dot_normal, reflect_dot_camera) ==
    CAdd(CAdd(CScale(effective_color, material.ambient),
              IF RGe(light_dot_normal, Num(0))
              THEN CScale(CScale(effective_color, material.diffuse),
                          light_dot_normal)
              ELSE black),
         IF RGe(light_dot_normal, Num(0)) /\ RGt(reflect_dot_camera, Num(0))
         THEN CScale(CScale(lt.intensity, material.specular),
                     RPow(reflect_dot_camera, material.shininess))
         ELSE black)

\* the terms of lighting without the test of reflect_dot_camera
LightingTermsAnyReflection(material, lt, in_shadow, effective_color, light_dot_normal, reflect_dot_camera) ==
    CAdd(CAdd(CScale(effective_color, material.ambient),
              IF ~in_shadow /\ RGe(light_dot_normal, Num(0))
              THEN CScale(CScale(effective_color, material.diffuse),
                          light_dot_normal)
              ELSE black),
         IF ~in_shadow /\ RGe(light_dot_normal, Num(0))
         THEN CScale(CScale(lt.intensity, material.specular),
                     RPow(reflect_dot_camera, material.shininess))
         ELSE black)

\* lighting from `let ambient = ...`: ambient + diffuse + specular
LightingTerms(material, lt, in_shadow, effective_color, light_dot_normal, reflect_dot_camera) ==
    CAdd(CAdd(CScale(effective_color, material.ambient),
              IF ~in_shadow /\ RGe(light_dot_normal, Num(0))
              THEN CScale(CScale(effective_color, material.diffuse),
                          light_dot_normal)
              ELSE black),
         IF ~in_shadow /\ RGe(light_dot_normal, Num(0))
                       /\ RGt(reflect_dot_camera, Num(0))
         THEN CScale(CScale(lt.intensity, material.specular),
                     RPow(reflect_dot_camera, material.shininess))
         ELSE black)

\* lighting from `let effective_color = ...`
LightingColor(material, lt, camera, in_shadow, normal, color, light_v) ==
    IF color = Panic THEN Panic
    ELSE LightingTerms(material, lt, in_shadow,
                       CMul(color, lt.intensity),
                       dot(light_v, normal),
                       dot(TScale(reflect(light_v, normal), Num(-1)), camera))

\* ps: the patterns by address; object: the object, by value
lighting(ps, material, object, lt, pos, camera, surface, in_shadow) ==
    LightingColor(material, lt, camera, in_shadow,
                  normalize(surface),
                  IF material.pattern # None
                  THEN color_at_object(ps[material.pattern.ref], object, pos)
                  ELSE material.color,
                  normalize(TSub(lt.position, pos)))

-----------------------------------------------------------------------------
(* World, src/objects/world.rs.  A world is the pair of its objects (a     *)
(* sequence of addresses) and its light; h and ps are the objects and the  *)
(* patterns its references reach.                                          *)

\* [T]::sort_by with |a, b| a.parameter().partial_cmp(&b.parameter()).unwrap():
\* a stable sort; the insertion of x behind every element that is not greater
RECURSIVE InsertByTUnstable(_, _)
InsertByTUnstable(sorted, x) ==
    IF sorted = <<>> THEN <<x>>
    ELSE IF RLe(x.t, sorted[Len(sorted)].t)
    THEN Append(InsertByTUnstable(SubSeq(sorted, 1, Len(sorted) - 1), x),
                sorted[Len(sorted)])
    ELSE Append(sorted, x)

RECURSIVE InsertByT(_, _)
InsertByT(sorted, x) ==
    IF sorted = <<>> THEN <<x>>
    ELSE LET last == sorted[Len(sorted)]
         IN  IF RLt(x.t, last.t)
             THEN Append(InsertByT(SubSeq(sorted, 1, Len(sorted) - 1), x), last)
             ELSE Append(sorted, x)

RECURSIVE SortPrefixByT(_, _)
SortPrefixByT(intersections, k) ==
    IF k = 0 THEN <<>>
    ELSE InsertByT(SortPrefixByT(intersections, k - 1), intersections[k])

\* partial_cmp is None as soon as one side is NaN, and every element of a
\* slice of two or more is compared at least once
sort_by_parameter(intersections) ==
    IF intersections = Aborted THEN Aborted
    ELSE IF Len(intersections) >= 2
            /\ \E i \in 1..Len(intersections) : IsNaN(intersections[i].t)
    THEN Aborted
    ELSE SortPrefixByT(intersections, Len(intersections))

WorldFindIntersections(h, objs, ray) ==
    sort_by_parameter(find_many_intersections(h, ray, objs))

\* is_shadowed as it would be if every hit shadowed the point
IsShadowedByAny(hit) ==
    IF hit = Panic THEN Panic ELSE Return(hit # None)

\* if let Some(hit) = find_hit(..) { hit.parameter() < 1.0 } else { false }
IsShadowedBy(hit) ==
    IF hit = Panic THEN Panic
    ELSE IF hit # None THEN Return(RLt(hit.t, Num(1)))
    ELSE Return(FALSE)

\* is_shadowed as it would be if a World without a light were dark
is_shadowed_dark(h, objs, lt, pt) ==
    IF lt # None
    THEN IsShadowedBy(find_hit(WorldFindIntersections(
             h, objs, Ray(lt.position, TSub(pt, lt.position)))))
    ELSE Return(TRUE)

is_shadowed(h, objs, lt, pt) ==
    IF lt # None
    THEN IsShadowedBy(find_hit(WorldFindIntersections(
             h, objs, Ray(lt.position, TSub(pt, lt.position)))))
    ELSE Return(FALSE)

\* how often is_shadowed runs Object3D::intersect: once for every object of
\* the world when there is a light, never otherwise
is_shadowed_intersects(objs, lt) == IF lt # None THEN Len(objs) ELSE 0

\* shade_hit from the call of lighting
ShadeHitLighting(h, ps, lt, comp_res, shadowed) ==
    IF shadowed = Panic \/ lt = None THEN Panic
    ELSE lighting(ps, h[comp_res.object].material, h[comp_res.object], lt,
                  comp_res.over_point, comp_res.eye_dir, comp_res.normal,
                  shadowed.val)

shade_hit(h, ps, objs, lt, comp_res) ==
    IF comp_res = Panic THEN Panic
    ELSE ShadeHitLighting(h, ps, lt, comp_res,
                          is_shadowed(h, objs, lt, comp_res.over_point))

\* color_at_ray_hit as it would be if it shaded the first intersection
ColorOfFirst(h, ps, objs, lt, intersections) ==
    IF intersections = Aborted THEN Panic
    ELSE IF intersections # <<>>
    THEN shade_hit(h, ps, objs, lt, prepare_computations(h, intersections[1]))
    ELSE Color(Num(0), Num(0), Num(0))

color_at_ray_hit_first(h, ps, objs, lt, ray) ==
    ColorOfFirst(h, ps, objs, lt, WorldFindIntersections(h, objs, ray))

\* match find_hit(intersections)
ColorOfHit(h, ps, objs, lt, hit) ==
    IF hit = Panic THEN Panic
    ELSE IF hit # None
    THEN shade_hit(h, ps, objs, lt, prepare_computations(h, hit))
    ELSE Color(Num(0), Num(0), Num(0))

color_at_ray_hit(h, ps, objs, lt, ray) ==
    ColorOfHit(h, ps, objs, lt, find_hit(WorldFindIntersections(h, objs, ray)))

\* how often color_at_ray_hit runs Object3D::intersect: once for every object
\* in find_intersections, and as often as is_shadowed does when there is a hit
IntersectsForHit(objs, lt, hit) ==
    Len(objs) + (IF hit # Panic /\ hit # None
                 THEN is_shadowed_intersects(objs, lt) ELSE 0)

color_at_ray_hit_intersects(h, objs, lt, ray) ==
    IntersectsForHit(objs, lt, find_hit(WorldFindIntersections(h, objs, ray)))

-----------------------------------------------------------------------------
(* The scenes.  Every object, light, ray and point of the model lies on    *)
(* the y axis, where each square root the code takes is the root of a      *)
(* square.                                                                 *)

OnAxis(y) == [x |-> Num(0), y |-> y, z |-> Num(0)]

White == Color(Num(1), Num(1), Num(1))

\* the patterns the caller allocated: stripes of two colors
AllocatedPatterns == <<TwoColorPattern("Stripes", Color(Num(1), Rat(1, 2), Num(0)), black)>>

\* MaterialBuilder::new().ambient(0.2).diffuse(0.5).pattern(..).build()
StripedMaterial ==
    Material(White, Ref(1), Rat(1, 5), Rat(1, 2), Rat(9, 10), 200)

\* the objects the caller allocated, each configured before it is shared:
\* 1 is the unit sphere, which the y axis meets at -1 and 1; 2 is a striped
\* plane at y = -1; 3 is a sphere of radius 2, which the axis meets at -2 and 2
Allocated ==
    <<new_unit,
      change_material(
          change_transformation(Plane, translation(Num(0), Num(-1), Num(0))),
          StripedMaterial),
      change_transformation(new_unit, scaling(Num(2), Num(2), Num(2)))>>

Lights ==
    {PointLight(White, OnAxis(Num(-10))),
     PointLight(Color(Num(1), Rat(1, 2), Rat(1, 2)), OnAxis(Num(10)))}

\* rays from below, from inside and from above the objects, a ray with a
\* direction of length 2 and a ray that leaves the axis sideways
Rays ==
    {Ray(OnAxis(Num(-5)), Vector(Num(0), Num(1), Num(0))),
     Ray(OnAxis(Num(0)), Vector(Num(0), Num(1), Num(0))),
     Ray(OnAxis(Num(5)), Vector(Num(0), Num(1), Num(0))),
     Ray(OnAxis(Num(-5)), Vector(Num(0), Num(2), Num(0))),
     Ray(OnAxis(Num(-5)), Vector(Num(1), Num(0), Num(0)))}

Points == {OnAxis(Num(-12)), OnAxis(Num(-4)), OnAxis(Num(-2)), OnAxis(Num(0))}

\* the most objects a World of the model holds
MaxObjects == 3

-----------------------------------------------------------------------------
(* The World and its caller.  pc is "idle" between two calls; a call       *)
(* leaves its name in pc, its arguments in input and what it returned in   *)
(* output, and the caller takes the value and goes on (Resume).  After a   *)
(* panic nothing goes on.                                                  *)

\* what a call leaves in output
Returned(value) == IF value = Panic THEN Panic ELSE Return(value)

ReturnedVec(value) == IF value = Aborted THEN Panic ELSE Return(value)

\* World::new()
Init ==
    /\ heap = Allocated
    /\ patterns = AllocatedPatterns
    /\ objects = <<>>
    /\ light = None
    /\ pc = "idle"
    /\ input = None
    /\ output = None
    /\ intersected = 0
    /\ NoRender

\* World::add_object
AddObject(addr) ==
    /\ pc = "idle"
    /\ Len(objects) < MaxObjects
    /\ objects' = Append(objects, addr)
    /\ UNCHANGED <<heap, patterns, light, pc, input, output, intersected>>
    /\ UNCHANGED render_vars

\* World::set_light
SetLight(lt) ==
    /\ pc = "idle"
    /\ light' = lt
    /\ UNCHANGED <<heap, patterns, objects, pc, input, output, intersected>>
    /\ UNCHANGED render_vars

\* World::find_intersections
FindIntersections(ray) ==
    /\ pc = "idle"
    /\ output' = ReturnedVec(WorldFindIntersections(heap, objects, ray))
    /\ pc' = "find_intersections"
    /\ input' = ray
    /\ intersected' = Len(objects)
    /\ UNCHANGED <<heap, patterns, objects, light>>
    /\ UNCHANGED render_vars

\* World::color_at_ray_hit
ColorAtRayHit(ray) ==
    /\ pc = "idle"
    /\ output' = Returned(color_at_ray_hit(heap, patterns, objects, light, ray))
    /\ pc' = "color_at_ray_hit"
    /\ input' = ray
    /\ intersected' = color_at_ray_hit_intersects(heap, objects, light, ray)
    /\ UNCHANGED <<heap, patterns, objects, light>>
    /\ UNCHANGED render_vars

\* World::is_shadowed
IsShadowed(pt) ==
    /\ pc = "idle"
    /\ output' = is_shadowed(heap, objects, light, pt)
    /\ pc' = "is_shadowed"
    /\ input' = pt
    /\ intersected' = is_shadowed_intersects(objects, light)
    /\ UNCHANGED <<heap, patterns, objects, light>>
    /\ UNCHANGED render_vars

\* the caller takes the value a call returned
Resume ==
    /\ pc # "idle"
    /\ output # Panic
    /\ pc' = "idle"
    /\ input' = None
    /\ output' = None
    /\ intersected' = 0
    /\ UNCHANGED <<heap, patterns, objects, light>>
    /\ UNCHANGED render_vars

Next ==
    \/ \E addr \in DOMAIN heap : AddObject(addr)
    \/ \E lt \in Lights : SetLight(lt)
    \/ \E ray \in Rays : FindIntersections(ray)
    \/ \E ray \in Rays : ColorAtRayHit(ray)
    \/ \E pt \in Points : IsShadowed(pt)
    \/ Resume

Spec == Init /\ [][Next]_vars

-----------------------------------------------------------------------------
(* What the World's calls promise *)

\* the intersections of ray with the object at addr, each paired with it
Paired(ray, ts, addr) ==
    [i \in 1..Len(ts) |-> [ray |-> ray, t |-> ts[i], partner |-> addr]]

\* the intersections of ray with the first k objects of the World, object by
\* object in the order of their insertion
RECURSIVE Concatenation(_, _)
Concatenation(ray, k) ==
    IF k = 0 THEN <<>>
    ELSE Concatenation(ray, k - 1)
         \o Paired(ray, intersect(heap[objects[k]], ray), objects[k])

\* the place of cat[k] in the stable ascending order of cat by t
StablePlace(cat, k) ==
    Cardinality({j \in 1..Len(cat) : RLt(cat[j].t, cat[k].t)})
    + Cardinality({j \in 1..k : REq(cat[j].t, cat[k].t)})

SortedStablePermutation(xs, cat) ==
    /\ Len(xs) = Len(cat)
    /\ \A i \in 1..Len(xs) : \A j \in 1..Len(xs) :
          i < j => RLe(xs[i].t, xs[j].t)
    /\ \A k \in 1..Len(cat) : xs[StablePlace(cat, k)] = cat[k]

\* C2: World::find_intersections(ray) returns the intersections of the ray
\* with every object of the World, each still paired with its object, none
\* dropped and none duplicated, sorted ascending by t, those of equal t in the
\* order they have in the concatenation by insertion order.
C2_FindIntersectionsSortedStable ==
    pc = "find_intersections" =>
        /\ output # Panic
        /\ SortedStablePermutation(output.val,
                                   Concatenation(input, Len(objects)))

\* find_intersections has reordered the concatenation, and two objects share
\* a parameter
C2_Witness ==
    /\ pc = "find_intersections"
    /\ output # Panic
    /\ Len(output.val) >= 4
    /\ output.val # Concatenation(input, Len(objects))
    /\ \E i \in 1..(Len(output.val) - 1) :
          /\ output.val[i].t = output.val[i + 1].t
          /\ output.val[i].partner # output.val[i + 1].partner

\* the index in cat of the intersection with the smallest t >= 0, the first
\* of them where several share it; 0 where no t is >= 0
NearestHit(cat) ==
    IF \E k \in 1..Len(cat) : RGe(cat[k].t, Num(0))
    THEN CHOOSE k \in 1..Len(cat) :
             /\ RGe(cat[k].t, Num(0))
             /\ \A j \in 1..Len(cat) :
                   RGe(cat[j].t, Num(0)) =>
                       \/ RLt(cat[k].t, cat[j].t)
                       \/ (REq(cat[k].t, cat[j].t) /\ k <= j)
    ELSE 0

ColorOfNearest(cat, k) ==
    IF k = 0 THEN Return(black)
    ELSE Returned(shade_hit(heap, patterns, objects, light,
                            prepare_computations(heap, cat[k])))

ColorPromised(cat) == ColorOfNearest(cat, NearestHit(cat))

\* C3: World::color_at_ray_hit(ray) returns black when no object of the World
\* has an intersection with t >= 0 (an empty World, every object behind the
\* ray's origin); otherwise it returns shade_hit of the prepared computations
\* of the hit, the intersection with the smallest t >= 0.
C3_ColorAtRayHitBlackOrShaded ==
    pc = "color_at_ray_hit" =>
        output = ColorPromised(Concatenation(input, Len(objects)))

\* a ray from inside two objects: some intersections lie behind its origin
\* and the hit is shaded
C3_Witness ==
    /\ pc = "color_at_ray_hit"
    /\ Len(objects) >= 2
    /\ output # Panic
    /\ output.val # black
    /\ \E k \in 1..Len(objects) :
          \E i \in 1..Len(intersect(heap[objects[k]], input)) :
              RLt(intersect(heap[objects[k]], input)[i], Num(0))

ShadowPromised(cat, k) == Return(k # 0 /\ RLt(cat[k].t, Num(1)))

\* C4: in a World with a light, is_shadowed(point) is true exactly when the
\* ray from light.position with the direction point - light.position, not
\* normalized, has a nearest intersection with t >= 0 and that t is < 1.
C4_IsShadowedIffHitBeforePoint ==
    (pc = "is_shadowed" /\ light # None) =>
        output = ShadowPromised(
                     Concatenation(Ray(light.position,
                                       TSub(input, light.position)),
                                   Len(objects)),
                     NearestHit(Concatenation(Ray(light.position,
                                                  TSub(input, light.position)),
                                              Len(objects))))

\* a point in the shadow of an object, with another object behind the light
\* or behind the point
C4_Witness ==
    /\ pc = "is_shadowed"
    /\ light # None
    /\ output = Return(TRUE)
    /\ Len(objects) >= 2
    /\ \E k \in 1..Len(objects) :
          \A i \in 1..Len(intersect(heap[objects[k]],
                                    Ray(light.position, TSub(input, light.position)))) :
              RGe(intersect(heap[objects[k]],
                            Ray(light.position, TSub(input, light.position)))[i],
                  Num(1))

\* C5: in a World whose light was never set, is_shadowed(point) returns false
\* whatever the point and the objects, and it intersects no object.
C5_NoLightNoShadow ==
    (pc = "is_shadowed" /\ light = None) =>
        /\ output = Return(FALSE)
        /\ intersected = 0

\* is_shadowed in a World without a light that holds objects
C5_Witness ==
    /\ pc = "is_shadowed"
    /\ light = None
    /\ Len(objects) >= 2
    /\ output = Return(FALSE)
    /\ intersected = 0

-----------------------------------------------------------------------------
(* find_hit on its own: the caller hands it a list of intersections of the *)
(* objects 1 and 2, in any order.                                          *)

\* the longest list handed to find_hit
MaxHits == 3

HitParameters == {Num(-1), Num(0), Rat(1, 2), Num(2)}

HitIntersections ==
    {Intersection(Ray(OnAxis(Num(0)), Vector(Num(0), Num(1), Num(0))), t, partner) :
         t \in HitParameters, partner \in {1, 2}}

HitLists == UNION {[1..k -> HitIntersections] : k \in 0..MaxHits}

InitHit ==
    /\ heap = Allocated
    /\ patterns = AllocatedPatterns
    /\ objects = <<>>
    /\ light = None
    /\ pc = "idle"
    /\ input \in HitLists
    /\ output = None
    /\ intersected = 0
    /\ NoRender

FindHit ==
    /\ pc = "idle"
    /\ pc' = "find_hit"
    /\ output' = Returned(find_hit(input))
    /\ UNCHANGED <<heap, patterns, objects, light, input, intersected>>
    /\ UNCHANGED render_vars

NextHit == FindHit

SpecHit == InitHit /\ [][NextHit]_vars

HitPromised(intersections, hit) ==
    /\ (hit = None) <=>
           (\A i \in 1..Len(intersections) : ~RGe(intersections[i].t, Num(0)))
    /\ hit # None =>
           /\ \E i \in 1..Len(intersections) : intersections[i] = hit
           /\ RGe(hit.t, Num(0))
           /\ \A i \in 1..Len(intersections) :
                 RGe(intersections[i].t, Num(0)) => RLe(hit.t, intersections[i].t)

\* C1: find_hit returns, for a list of intersections in any order, one of the
\* list whose t is >= 0 and <= the t of every intersection of the list with
\* t >= 0; it returns None exactly when no intersection of the list has
\* t >= 0.  t = 0 is a hit, a negative t never is.
C1_FindHitSmallestNonNegative ==
    pc = "find_hit" => (output # Panic /\ HitPromised(input, output.val))

\* an unsorted list with a negative parameter: the hit is its last element
C1_Witness ==
    /\ pc = "find_hit"
    /\ Len(input) = 3
    /\ input[1].t = Num(2)
    /\ input[2].t = Num(-1)
    /\ input[3].t = Rat(1, 2)
    /\ output = Return(input[3])

-----------------------------------------------------------------------------
(* lighting on its own, at the origin of the unit sphere.  The lights and  *)
(* the eye lie in the plane x = 0 at whole distances, so that every        *)
(* normalized vector is rational.                                          *)

LightingMaterials ==
    {Material(White, None, Rat(1, 10), Rat(9, 10), Rat(9, 10), 2),
     Material(Color(Num(1), Rat(1, 2), Num(0)), None,
              Rat(1, 5), Rat(1, 2), Rat(1, 2), 3),
     Material(White, Ref(1), Rat(1, 10), Rat(9, 10), Rat(9, 10), 2)}

\* a light in front of the surface, one above it, one behind it
LightingLights ==
    {PointLight(White, Point(Num(0), Num(0), Num(-10))),
     PointLight(Color(Num(1), Rat(1, 2), Rat(1, 2)), Point(Num(0), Num(6), Num(-8))),
     PointLight(White, Point(Num(0), Num(0), Num(10)))}

Cameras ==
    {Vector(Num(0), Num(0), Num(-1)),
     Vector(Num(0), Rat(-3, 5), Rat(-4, 5)),
     Vector(Num(0), Rat(3, 5), Rat(-4, 5)),
     Vector(Num(0), Num(0), Num(1))}

Surfaces == {Vector(Num(0), Num(0), Num(-1)), Vector(Num(0), Num(0), Num(-2))}

LightingInputs ==
    [material : LightingMaterials, light : LightingLights, camera : Cameras,
     surface : Surfaces, in_shadow : BOOLEAN]

LightingPosition == Point(Num(0), Num(0), Num(0))

InitLight ==
    /\ heap = Allocated
    /\ patterns = AllocatedPatterns
    /\ objects = <<>>
    /\ light = None
    /\ pc = "idle"
    /\ input \in LightingInputs
    /\ output = None
    /\ intersected = 0
    /\ NoRender

Lighting ==
    /\ pc = "idle"
    /\ pc' = "lighting"
    /\ output' = Returned(lighting(patterns, input.material, heap[1],
                                   input.light, LightingPosition,
                                   input.camera, input.surface,
                                   input.in_shadow))
    /\ UNCHANGED <<heap, patterns, objects, light, input, intersected>>
    /\ UNCHANGED render_vars

NextLight == Lighting

SpecLight == InitLight /\ [][NextLight]_vars

\* the color of the surface: the pattern's where the material has one
BaseColor(material) ==
    IF material.pattern # None
    THEN color_at_object(patterns[material.pattern.ref], heap[1], LightingPosition)
    ELSE material.color

AmbientTerm(material, lt) ==
    CScale(CMul(BaseColor(material), lt.intensity), material.ambient)

\* C6: lighting with in_shadow = true returns the ambient term alone, the base
\* color * light.intensity * material.ambient, whatever the light's position,
\* the eye, the normal and the material's diffuse, specular and shininess.
C6_LightingInShadowIsAmbient ==
    (pc = "lighting" /\ input.in_shadow) =>
        output = Return(AmbientTerm(input.material, input.light))

\* in shadow, with the light in front of the surface and the eye in the path
\* of the reflection
C6_Witness ==
    /\ pc = "lighting"
    /\ input.in_shadow
    /\ input.light.position = Point(Num(0), Num(6), Num(-8))
    /\ input.camera = Vector(Num(0), Rat(-3, 5), Rat(-4, 5))
    /\ input.material.diffuse = Rat(9, 10)
    /\ input.material.pattern = None
    /\ output = Return(Color(Rat(1, 10), Rat(1, 20), Rat(1, 20)))

\* dot(lightDir, normal)
LightDotNormal(lt, surface) ==
    dot(normalize(TSub(lt.position, LightingPosition)), normalize(surface))

\* the reflection of -lightDir about the normal: -l + 2 (l . n) n
Reflected(lightDir, normal) ==
    TSub(TScale(normal, RMul(Num(2), dot(lightDir, normal))), lightDir)

ReflectDotEye(lt, surface, camera) ==
    dot(Reflected(normalize(TSub(lt.position, LightingPosition)),
                  normalize(surface)),
        camera)

DiffuseTerm(material, lt, lightDotNormal) ==
    CScale(CScale(CMul(BaseColor(material), lt.intensity), material.diffuse),
           lightDotNormal)

SpecularTerm(material, lt, reflectDotEye) ==
    CScale(CScale(lt.intensity, material.specular),
           RPow(reflectDotEye, material.shininess))

LitPromised(material, lt, lightDotNormal, reflectDotEye) ==
    IF RLt(lightDotNormal, Num(0)) THEN AmbientTerm(material, lt)
    ELSE IF RGt(reflectDotEye, Num(0))
    THEN CAdd(CAdd(AmbientTerm(material, lt),
                   DiffuseTerm(material, lt, lightDotNormal)),
              SpecularTerm(material, lt, reflectDotEye))
    ELSE CAdd(AmbientTerm(material, lt),
              DiffuseTerm(material, lt, lightDotNormal))

\* C7: lighting with in_shadow = false returns the ambient term alone when
\* dot(lightDir, normal) < 0; when it is >= 0 it adds the diffuse term
\* effectiveColor * material.diffuse * lightDotNormal, and the specular term
\* light.intensity * material.specular * reflectDotEye^shininess only when
\* reflectDotEye > 0.
C7_LightingOutOfShadow ==
    (pc = "lighting" /\ ~input.in_shadow) =>
        output = Return(LitPromised(
                            input.material, input.light,
                            LightDotNormal(input.light, input.surface),
                            ReflectDotEye(input.light, input.surface, input.camera)))

\* out of shadow, the light above the surface and the eye off the path of the
\* reflection: ambient, diffuse and a specular term of (7/25)^2
C7_Witness ==
    /\ pc = "lighting"
    /\ ~input.in_shadow
    /\ input.light.position = Point(Num(0), Num(6), Num(-8))
    /\ input.camera = Vector(Num(0), Rat(3, 5), Rat(-4, 5))
    /\ input.material = Material(White, None, Rat(1, 10), Rat(9, 10), Rat(9, 10), 2)
    /\ ReflectDotEye(input.light, input.surface, input.camera) = Rat(7, 25)
    /\ output # Return(AmbientTerm(input.material, input.light))
    /\ output = Return(CAdd(CAdd(AmbientTerm(input.material, input.light),
                                 DiffuseTerm(input.material, input.light, Rat(4, 5))),
                            SpecularTerm(input.material, input.light, Rat(7, 25))))

-----------------------------------------------------------------------------
(* Matrix on its own: invert and multiply, on every matrix Matrix::new and *)
(* set build with up to MaxDim rows and columns (a dimension may be 0), on *)
(* the transformations of the scenes and on a point.                       *)

\* the most rows and the most columns of the matrices built entry by entry
MaxDim == 2

Entries == {Num(0), Num(1), Num(2)}

OperandEntries == {Num(1), Num(2)}

MatricesOver(entries) ==
    UNION {{Matrix(n, m, elements) : elements \in [1..n -> [1..m -> entries]]} :
               n \in 0..MaxDim, m \in 0..MaxDim}

Matrices ==
    MatricesOver(Entries) \cup Transformations
    \cup {Matrix(3, 3, <<<<Num(2), Num(0), Num(1)>>,
                        <<Num(1), Num(1), Num(0)>>,
                        <<Num(0), Num(3), Num(1)>>>>)}

Operands ==
    MatricesOver(OperandEntries) \cup {PointToMatrix(OnAxis(Num(1)))}

InitMatrix ==
    /\ heap = Allocated
    /\ patterns = AllocatedPatterns
    /\ objects = <<>>
    /\ light = None
    /\ pc = "idle"
    /\ input \in [a : Matrices, b : Operands]
    /\ output = None
    /\ intersected = 0
    /\ NoRender

\* input.a.invert()
Invert ==
    /\ pc = "idle"
    /\ pc' = "invert"
    /\ output' = invert(input.a)
    /\ UNCHANGED <<heap, patterns, objects, light, input, intersected>>
    /\ UNCHANGED render_vars

\* input.a.multiply(&input.b)
Multiply ==
    /\ pc = "idle"
    /\ pc' = "multiply"
    /\ output' = multiply(input.a, input.b)
    /\ UNCHANGED <<heap, patterns, objects, light, input, intersected>>
    /\ UNCHANGED render_vars

NextMatrix == Invert \/ Multiply

SpecMatrix == InitMatrix /\ [][NextMatrix]_vars

IsSquare(M) == M.n = M.m

\* the determinant is zero within epsilon
ZeroDeterminant(M) == IsSquare(M) /\ LtEpsilon(RAbs(determinant(M).val))

\* C8: Matrix::invert returns a failure, never a matrix, for every matrix
\* that is not square and for every square matrix whose determinant is zero;
\* it returns a matrix only for a square matrix with a determinant that is
\* not zero.
C8_InvertFailsUnlessInvertible ==
    pc = "invert" =>
        /\ (~IsSquare(input.a) \/ ZeroDeterminant(input.a)) => ~output.ok
        /\ output.ok => (IsSquare(input.a) /\ ~ZeroDeterminant(input.a))

\* the product exists and is the identity of size n
IsIdentityProduct(product, n) ==
    /\ product # Panic
    /\ product.ok
    /\ MatrixEq(product.val, identity(n))

\* entry (r, c) of the inverse is (-1)^(r+c) * det(M without row c and column
\* r) / det(M)
InverseEntries(M, inverse) ==
    \A r \in Range0(M.n) : \A c \in Range0(M.n) :
        REq(get(inverse, r, c),
            RDiv(RMul(IF (r + c) % 2 = 0 THEN Num(1) ELSE Num(-1),
                      determinant(sub_matrix(M, c, r)).val),
                 determinant(M).val))

InversePromised(M, inverted_M) ==
    /\ inverted_M.ok
    /\ IsIdentityProduct(multiply(M, inverted_M.val), M.n)
    /\ IsIdentityProduct(multiply(inverted_M.val, M), M.n)
    /\ invert(inverted_M.val).ok
    /\ MatrixEq(invert(inverted_M.val).val, M)
    /\ InverseEntries(M, inverted_M.val)

\* C9: for every square matrix M with a determinant that is not zero, invert
\* succeeds, M * invert(M) and invert(M) * M are the identity, the inverse of
\* invert(M) is M, and entry (r, c) of invert(M) is (-1)^(r+c) * det(minor of
\* M without row c and column r) / det(M).
C9_InverseIsInverse ==
    (pc = "invert" /\ IsSquare(input.a) /\ ~ZeroDeterminant(input.a)) =>
        InversePromised(input.a, output)

RECURSIVE SumOverK(_, _, _, _, _)
SumOverK(A, B, i, j, k) ==
    IF k = 0 THEN Num(0)
    ELSE RAdd(SumOverK(A, B, i, j, k - 1), RMul(A.elements[i][k], B.elements[k][j]))

ProductPromised(A, B, product) ==
    /\ product # Panic
    /\ product.ok
    /\ size(product.val) = <<A.n, B.m>>
    /\ Len(product.val.elements) = A.n
    /\ \A i \in 1..A.n :
          /\ Len(product.val.elements[i]) = B.m
          /\ \A j \in 1..B.m :
                REq(product.val.elements[i][j], SumOverK(A, B, i, j, A.m))

\* C10: multiply(A, B) returns an error whenever A has not as many columns as
\* B has rows; otherwise it returns the matrix of rows(A) x cols(B) whose
\* entry (i, j) is the sum over k of A[i][k] * B[k][j].
C10_MultiplyErrOrProduct ==
    pc = "multiply" =>
        IF input.a.m # input.b.n
        THEN output # Panic /\ ~output.ok
        ELSE ProductPromised(input.a, input.b, output)

-----------------------------------------------------------------------------
(* Matrix::from_elements on row data: every Vec of up to MaxRows rows, each *)
(* row a Vec of up to MaxRowLen values; rows may differ in length.          *)

\* Matrix::from_elements: n from the number of rows, m from the first row,
\* every row copied as it is
from_elements(elements) ==
    IF Len(elements) <= 0 THEN Err("Number of rows must be positive")
    ELSE IF Len(elements[1]) <= 0 THEN Err("Number of columns must be positive")
    ELSE Ok(Matrix(Len(elements), Len(elements[1]), [r \in 1..Len(elements) |-> [c \in 1..Len(elements[r]) |-> elements[r][c]]]))

\* the most rows of the row data
MaxRows == 3

\* the most values of a row of the row data
MaxRowLen == 2

RowsOfData == UNION {[1..m -> OperandEntries] : m \in 0..MaxRowLen}

RowData == UNION {[1..n -> RowsOfData] : n \in 0..MaxRows}

InitElements ==
    /\ heap = Allocated
    /\ patterns = AllocatedPatterns
    /\ objects = <<>>
    /\ light = None
    /\ pc = "idle"
    /\ input \in RowData
    /\ output = None
    /\ intersected = 0
    /\ NoRender

\* Matrix::from_elements(&input)
FromElements ==
    /\ pc = "idle"
    /\ pc' = "from_elements"
    /\ output' = from_elements(input)
    /\ UNCHANGED <<heap, patterns, objects, light, input, intersected>>
    /\ UNCHANGED render_vars

NextElements == FromElements

SpecElements == InitElements /\ [][NextElements]_vars

\* no rows, or a first row without columns
IsEmptyData(elements) == Len(elements) = 0 \/ Len(elements[1]) = 0

\* a row that is not as long as the first row
IsRaggedData(elements) ==
    \E r \in 1..Len(elements) : Len(elements[r]) # Len(elements[1])

\* M has exactly n rows of exactly m elements, n and m as size() reports them
IsWellFormed(M) ==
    /\ Len(M.elements) = size(M)[1]
    /\ \A r \in 1..Len(M.elements) : Len(M.elements[r]) = size(M)[2]

\* C11: Matrix::from_elements returns an error for empty row data and for
\* ragged row data, and every matrix it returns has exactly n rows of exactly
\* m elements, n and m being its size().
C11_FromElementsRejectsRagged ==
    pc = "from_elements" =>
        /\ (IsEmptyData(input) \/ IsRaggedData(input)) => ~output.ok
        /\ output.ok => IsWellFormed(output.val)

\* the part of C11 the code keeps: empty row data is rejected, and rows of
\* one length give a well-formed matrix of those rows
C11_Rectangular ==
    (pc = "from_elements" /\ ~IsRaggedData(input)) =>
        IF IsEmptyData(input) THEN ~output.ok
        ELSE output.ok /\ IsWellFormed(output.val) /\ output.val.elements = input

-----------------------------------------------------------------------------
(* Material equality: impl PartialEq for Material, on pairs of materials   *)
(* whose patterns are absent or references to one of two patterns of equal *)
(* content.                                                                *)

\* derive(PartialEq) for Color
ColorEq(a, b) == REq(a.red, b.red) /\ REq(a.green, b.green) /\ REq(a.blue, b.blue)

\* Rc::ptr_eq: the two references share one allocation
ptr_eq(a, b) == a.ref = b.ref

\* Material::eq from `if self.ambient != other.ambient`
MaterialScalarsEq(self, other) ==
    /\ REq(self.ambient, other.ambient)
    /\ REq(self.diffuse, other.diffuse)
    /\ REq(self.specular, other.specular)
    /\ self.shininess = other.shininess

\* Material::eq: false when both patterns are present and ptr_eq
material_eq(self, other) ==
    IF ~ColorEq(self.color, other.color) THEN FALSE
    ELSE IF self.pattern # None /\ other.pattern # None /\ ptr_eq(self.pattern, other.pattern) THEN FALSE
    ELSE IF self.pattern # None /\ other.pattern = None THEN FALSE
    ELSE IF self.pattern = None /\ other.pattern # None THEN FALSE
    ELSE MaterialScalarsEq(self, other)

\* two allocations of patterns with the same content
MaterialPatterns == <<AllocatedPatterns[1], AllocatedPatterns[1]>>

\* materials built with MaterialBuilder
Materials ==
    {Material(color, pattern, ambient, Rat(9, 10), specular, shininess) :
        color \in {White, Color(Num(1), Num(0), Num(0))},
        pattern \in {None} \cup {Ref(addr) : addr \in DOMAIN MaterialPatterns},
        ambient \in {Rat(1, 10), Num(1)},
        specular \in {Rat(9, 10), Num(0)},
        shininess \in {200, 10}}

InitMaterial ==
    /\ heap = Allocated
    /\ patterns = MaterialPatterns
    /\ objects = <<>>
    /\ light = None
    /\ pc = "idle"
    /\ input \in [a : Materials, b : Materials]
    /\ output = None
    /\ intersected = 0
    /\ NoRender

\* input.a == input.b
MaterialEq ==
    /\ pc = "idle"
    /\ pc' = "eq"
    /\ output' = Return(material_eq(input.a, input.b))
    /\ UNCHANGED <<heap, patterns, objects, light, input, intersected>>
    /\ UNCHANGED render_vars

NextMaterial == MaterialEq

SpecMaterial == InitMaterial /\ [][NextMaterial]_vars

\* both patterns absent, or both the very same reference
SamePattern(a, b) ==
    \/ a.pattern = None /\ b.pattern = None
    \/ a.pattern # None /\ b.pattern # None /\ a.pattern.ref = b.pattern.ref

\* C12: two materials compare equal if and only if their colors, ambient,
\* diffuse, specular and shininess are equal and their patterns are both
\* absent or both the very same reference; so a material equals its clone.
C12_MaterialEquality ==
    pc = "eq" =>
        output.val = (/\ input.a.color = input.b.color
                      /\ input.a.ambient = input.b.ambient
                      /\ input.a.diffuse = input.b.diffuse
                      /\ input.a.specular = input.b.specular
                      /\ input.a.shininess = input.b.shininess
                      /\ SamePattern(input.a, input.b))

\* the part of C12 the code keeps: materials without a pattern are equal
\* exactly when their colors and scalars are equal
C12_WithoutPattern ==
    (pc = "eq" /\ input.a.pattern = None /\ input.b.pattern = None) =>
        output.val = (/\ input.a.color = input.b.color
                      /\ input.a.ambient = input.b.ambient
                      /\ input.a.diffuse = input.b.diffuse
                      /\ input.a.specular = input.b.specular
                      /\ input.a.shininess = input.b.shininess)

-----------------------------------------------------------------------------
(* The shapes on their own: local_intersect, Object3D::intersect and       *)
(* World::find_intersections on a Sphere or a Plane after any              *)
(* change_transformation, for rays of every kind.  The World holds the     *)
(* shape twice.                                                            *)

\* the arguments of change_transformation: the transformations of the
\* scenes, a scaling that flattens y, and matrices that are not 4 x 4
ShapeTransformations ==
    Transformations \cup {scaling(Num(1), Num(0), Num(1)), identity(3), new(3, 4)}

\* Sphere::new_unit(), Sphere::new(..) and Plane::new(), one of them with a
\* material changed, each after change_transformation
Shapes ==
    {change_transformation(shape, transformation) :
        shape \in {new_unit,
                   Sphere(Point(Num(0), Num(1), Num(0)), Num(2)),
                   Plane,
                   change_material(Plane, StripedMaterial)},
        transformation \in ShapeTransformations}

\* rays through the centre, from inside, from behind, tangent, missing, with
\* a direction that is not normalized, with the zero direction, parallel to
\* the plane above it and within it, and from above the plane downwards
ShapeRays ==
    {Ray(Point(Num(0), Num(-5), Num(0)), Vector(Num(0), Num(1), Num(0))),
     Ray(Point(Num(0), Num(0), Num(0)), Vector(Num(0), Num(1), Num(0))),
     Ray(Point(Num(0), Num(5), Num(0)), Vector(Num(0), Num(1), Num(0))),
     Ray(Point(Num(1), Num(-5), Num(0)), Vector(Num(0), Num(1), Num(0))),
     Ray(Point(Num(2), Num(-5), Num(0)), Vector(Num(0), Num(1), Num(0))),
     Ray(Point(Rat(3, 5), Num(-5), Num(0)), Vector(Num(0), Num(1), Num(0))),
     Ray(Point(Num(0), Num(-5), Num(0)), Vector(Num(0), Num(2), Num(0))),
     Ray(Point(Num(0), Num(-5), Num(0)), Vector(Num(0), Num(0), Num(0))),
     Ray(Point(Num(0), Num(1), Num(0)), Vector(Num(1), Num(0), Num(0))),
     Ray(Point(Num(0), Num(0), Num(0)), Vector(Num(1), Num(0), Num(0))),
     Ray(Point(Num(0), Num(-1), Num(0)), Vector(Num(1), Num(0), Num(0))),
     Ray(Point(Num(0), Num(2), Num(0)), Vector(Num(0), Num(-1), Num(0)))}

InitShape ==
    /\ input \in [object : Shapes, ray : ShapeRays]
    /\ heap = <<input.object>>
    /\ patterns = AllocatedPatterns
    /\ objects = <<1, 1>>
    /\ light = None
    /\ pc = "idle"
    /\ output = None
    /\ intersected = 0
    /\ NoRender

\* input.object.local_intersect(&input.ray)
LocalIntersect ==
    /\ pc = "idle"
    /\ pc' = "local_intersect"
    /\ output' = ReturnedVec(local_intersect(input.object, input.ray))
    /\ UNCHANGED <<heap, patterns, objects, light, input, intersected>>
    /\ UNCHANGED render_vars

\* input.object.intersect(&input.ray)
Intersect ==
    /\ pc = "idle"
    /\ pc' = "intersect"
    /\ output' = ReturnedVec(intersect(input.object, input.ray))
    /\ UNCHANGED <<heap, patterns, objects, light, input, intersected>>
    /\ UNCHANGED render_vars

\* World::find_intersections(&input.ray) in the World of the shape
ShapeFindIntersections ==
    /\ pc = "idle"
    /\ pc' = "find_intersections"
    /\ output' = ReturnedVec(WorldFindIntersections(heap, objects, input.ray))
    /\ UNCHANGED <<heap, patterns, objects, light, input, intersected>>
    /\ UNCHANGED render_vars

NextShape == LocalIntersect \/ Intersect \/ ShapeFindIntersections

SpecShape == InitShape /\ [][NextShape]_vars

\* C13: Plane::local_intersect returns the empty list for every ray whose
\* direction has a y within epsilon of zero, whatever the origin, and
\* otherwise exactly the one root -origin.y / direction.y, negative or not.
C13_PlaneLocalIntersect ==
    (pc = "local_intersect" /\ input.object.kind = "Plane") =>
        /\ output # Panic
        /\ IF LtEpsilon(RAbs(input.ray.direction.y))
           THEN output.val = <<>>
           ELSE output.val = <<RDiv(RNeg(input.ray.origin.y), input.ray.direction.y)>>

\* a plane behind the ray: the one root is negative
C13_Witness ==
    /\ pc = "local_intersect"
    /\ input.object.kind = "Plane"
    /\ output # Panic
    /\ Len(output.val) = 1
    /\ RLt(output.val[1], Num(0))

\* p = (b.d)/(b.b) for d = ray.origin - sphere.origin and b = ray.direction
ClosestApproach(sphere, ray) ==
    RDiv(dot(ray.direction, TSub(ray.origin, sphere.origin)), dot(ray.direction, ray.direction))

\* p^2 - q for q = (d.d - radius^2)/(b.b)
Discriminant(sphere, ray) ==
    RSub(RMul(ClosestApproach(sphere, ray), ClosestApproach(sphere, ray)),
         RDiv(RSub(dot(TSub(ray.origin, sphere.origin), TSub(ray.origin, sphere.origin)),
                   RMul(sphere.radius, sphere.radius)),
              dot(ray.direction, ray.direction)))

\* the roots are [-p - sqrt(x), -p + sqrt(x)]: ascending, equal when x = 0,
\* and symmetric about -p
RootsPromised(roots, p, x) ==
    /\ Len(roots) = 2
    /\ roots[1] = RSub(RNeg(p), RSqrt(x))
    /\ roots[2] = RAdd(RNeg(p), RSqrt(x))
    /\ RLe(roots[1], roots[2])
    /\ (x = Num(0)) => roots[1] = roots[2]
    /\ RSub(RNeg(p), roots[1]) = RSub(roots[2], RNeg(p))

\* C14: Sphere::local_intersect returns no root or exactly two roots, never
\* one; for a direction that is not zero it returns [] when p^2 - q < 0 and
\* [-p - sqrt(p^2 - q), -p + sqrt(p^2 - q)] otherwise, in ascending order,
\* equal for a tangent ray and symmetric about -p.
C14_SphereLocalIntersect ==
    (pc = "local_intersect" /\ input.object.kind = "Sphere") =>
        /\ output # Panic
        /\ Len(output.val) \in {0, 2}
        /\ dot(input.ray.direction, input.ray.direction) # Num(0) =>
              IF RLt(Discriminant(input.object, input.ray), Num(0))
              THEN output.val = <<>>
              ELSE RootsPromised(output.val, ClosestApproach(input.object, input.ray), Discriminant(input.object, input.ray))

\* a tangent ray whose direction is not zero: two equal roots
C14_Witness ==
    /\ pc = "local_intersect"
    /\ input.object.kind = "Sphere"
    /\ dot(input.ray.direction, input.ray.direction) # Num(0)
    /\ Discriminant(input.object, input.ray) = Num(0)
    /\ output # Panic
    /\ Len(output.val) = 2
    /\ output.val[1] = output.val[2]

\* C15: no intersection test ever panics: for every ray and every Sphere or
\* Plane in any state reachable through new, change_transformation and
\* change_material, Object3D::intersect and World::find_intersections return
\* a list of roots, which may be empty.
C15_IntersectNeverPanics ==
    pc \in {"intersect", "find_intersections"} => output # Panic

\* the part of C15 the code keeps: with an invertible 4 x 4 transformation
\* no intersection test panics, whatever the ray
C15_InvertibleNeverPanics ==
    (pc \in {"intersect", "find_intersections"} /\ input.object.transformation \in Transformations) =>
        output # Panic

-----------------------------------------------------------------------------
(* Intersection::prepare_computations on every intersection that           *)
(* find_intersections returns for a shape with an invertible               *)
(* transformation and a ray.                                               *)

\* the shapes whose transformation is one of the scenes
PrepareShapes == {shape \in Shapes : shape.transformation \in Transformations}

\* the roots of the ray on the shape are rational: the square root that
\* Sphere::local_intersect takes is the root of a square
HasRationalRoots(shape, local_ray) ==
    \/ shape.kind = "Plane"
    \/ ~RGe(Discriminant(shape, local_ray), Num(0))
    \/ RMul(RSqrt(Discriminant(shape, local_ray)), RSqrt(Discriminant(shape, local_ray))) = Discriminant(shape, local_ray)

InitPrepare ==
    /\ heap \in {<<shape>> : shape \in PrepareShapes}
    /\ patterns = AllocatedPatterns
    /\ objects = <<1>>
    /\ light = None
    /\ pc = "idle"
    /\ input \in {ray \in ShapeRays : HasRationalRoots(heap[1], ray_transform(ray, unwrap(inverted(heap[1].transformation))))}
    /\ output = None
    /\ intersected = 0
    /\ NoRender

\* find_intersections(&input, &heap[1])[i].prepare_computations()
PrepareComputations(i) ==
    /\ pc = "idle"
    /\ i \in DOMAIN find_intersections(heap, input, 1)
    /\ pc' = "prepare_computations"
    /\ input' = find_intersections(heap, input, 1)[i]
    /\ output' = Returned(prepare_computations(heap, find_intersections(heap, input, 1)[i]))
    /\ UNCHANGED <<heap, patterns, objects, light, intersected>>
    /\ UNCHANGED render_vars

NextPrepare == \E i \in 1..2 : PrepareComputations(i)

SpecPrepare == InitPrepare /\ [][NextPrepare]_vars

\* eye = -normalize(ray.direction)
EyeOf(intersection) == TScale(normalize(intersection.ray.direction), Num(-1))

\* n = object.normal_at(ray.position(t))
NormalOf(h, intersection) ==
    normal_at(h[intersection.partner], position(intersection.ray, intersection.t))

-----------------------------------------------------------------------------
(* Patterns on their own: a pattern and an object, each of which may be    *)
(* given another transformation at any time, and the calls of color_at and *)
(* color_at_object between the changes.                                    *)

\* NestedPattern::change_transformation, to which TwoColorPattern delegates;
\* SolidPattern ignores it
pattern_change_transformation(pattern, transformation) ==
    IF pattern.kind = "Solid" THEN pattern
    ELSE [pattern EXCEPT !.transformation = transformation]

PatternRed == Color(Num(1), Num(0), Num(0))

\* the patterns of two colors of every kind, and stripes whose first child
\* is a pattern of checkers
PatternsOfModel ==
    {TwoColorPattern(kind, White, black) : kind \in {"Stripes", "Gradient", "Ring", "Checkers3D"}}
    \cup {NestedPattern("Stripes", TwoColorPattern("Checkers3D", White, black), SolidPattern(PatternRed)),
          NestedPattern("Checkers3D", SolidPattern(PatternRed), TwoColorPattern("Stripes", White, black))}

\* the arguments of change_transformation of a pattern and of an object
PatternTransformations ==
    Transformations \cup {translation(Rat(1, 2), Num(0), Num(0))}

PatternPoints ==
    {Point(x, y, z) :
        x \in {Rat(-11, 10), Num(-1), Rat(-1, 10), Num(0), Rat(9, 10), Num(1), Rat(19, 10), Rat(5, 2)},
        y \in {Rat(-1, 2), Num(0), Num(1)},
        z \in {Rat(-1, 2), Num(0), Num(1)}}

InitPattern ==
    /\ heap = <<new_unit>>
    /\ patterns \in {<<pattern>> : pattern \in PatternsOfModel}
    /\ objects = <<>>
    /\ light = None
    /\ pc = "idle"
    /\ input = None
    /\ output = None
    /\ intersected = 0
    /\ NoRender

\* heap[1].change_transformation(transformation)
ChangeTransformation(transformation) ==
    /\ pc = "idle"
    /\ heap' = [heap EXCEPT ![1] = change_transformation(heap[1], transformation)]
    /\ UNCHANGED <<patterns, objects, light, pc, input, output, intersected>>
    /\ UNCHANGED render_vars

\* patterns[1].change_transformation(transformation)
PatternChangeTransformation(transformation) ==
    /\ pc = "idle"
    /\ patterns' = [patterns EXCEPT ![1] = pattern_change_transformation(patterns[1], transformation)]
    /\ UNCHANGED <<heap, objects, light, pc, input, output, intersected>>
    /\ UNCHANGED render_vars

\* patterns[1].color_at(pt)
ColorAt(pt) ==
    /\ pc = "idle"
    /\ pc' = "color_at"
    /\ input' = pt
    /\ output' = Returned(color_at(patterns[1], pt))
    /\ UNCHANGED <<heap, patterns, objects, light, intersected>>
    /\ UNCHANGED render_vars

\* patterns[1].color_at_object(&heap[1], pt)
ColorAtObject(pt) ==
    /\ pc = "idle"
    /\ pc' = "color_at_object"
    /\ input' = pt
    /\ output' = Returned(color_at_object(patterns[1], heap[1], pt))
    /\ UNCHANGED <<heap, patterns, objects, light, intersected>>
    /\ UNCHANGED render_vars

NextPattern ==
    \/ \E transformation \in PatternTransformations : ChangeTransformation(transformation)
    \/ \E transformation \in PatternTransformations : PatternChangeTransformation(transformation)
    \/ \E pt \in PatternPoints : ColorAt(pt)
    \/ \E pt \in PatternPoints : ColorAtObject(pt)
    \/ Resume

SpecPattern == InitPattern /\ [][NextPattern]_vars

\* the largest integer that is not greater than a
Floor(a) == CHOOSE i \in -20..20 : i * a.d <= a.n /\ a.n < (i + 1) * a.d

IsEven(i) == \E k \in -20..20 : i = 2 * k

\* the children of the pattern are two different colors
HasTwoColors(pattern) ==
    /\ pattern.pattern_a.kind = "Solid"
    /\ pattern.pattern_b.kind = "Solid"
    /\ pattern.pattern_a.color # pattern.pattern_b.color

\* C17: the color of stripes at p is the first child's color when floor(p.x)
\* is even and the second child's when it is odd, for negative x too (-0.1
\* and -1.0 give the second, -1.1 the first); between two colors the result
\* does not depend on p.y or p.z, and it is the same at x and at x + 2.
C17_StripesAlternate ==
    (pc = "color_at" /\ patterns[1].kind = "Stripes") =>
        /\ output # Panic
        /\ output.val = IF IsEven(Floor(input.x))
                        THEN color_at(patterns[1].pattern_a, input)
                        ELSE color_at(patterns[1].pattern_b, input)
        /\ input.x \in {Rat(-1, 10), Num(-1)} => output.val = color_at(patterns[1].pattern_b, input)
        /\ input.x = Rat(-11, 10) => output.val = color_at(patterns[1].pattern_a, input)
        /\ HasTwoColors(patterns[1]) =>
              \A q \in PatternPoints :
                  (q.x = input.x \/ q.x = RAdd(input.x, Num(2))) =>
                      color_at(patterns[1], q) = output.val

\* stripes of two colors at x = -0.1: the second color
C17_Witness ==
    /\ pc = "color_at"
    /\ patterns[1].kind = "Stripes"
    /\ HasTwoColors(patterns[1])
    /\ input.x = Rat(-1, 10)
    /\ output = Return(patterns[1].pattern_b.color)

\* q is p moved across one integer boundary in exactly one coordinate
AcrossOneBoundary(p, q) ==
    \/ p.y = q.y /\ p.z = q.z /\ Floor(q.x) - Floor(p.x) \in {-1, 1}
    \/ p.x = q.x /\ p.z = q.z /\ Floor(q.y) - Floor(p.y) \in {-1, 1}
    \/ p.x = q.x /\ p.y = q.y /\ Floor(q.z) - Floor(p.z) \in {-1, 1}

\* C18: the color of checkers at p is the first child's color when
\* floor(p.x) + floor(p.y) + floor(p.z) is even and the second child's when
\* that sum is odd, negative sums included; between two colors, moving p
\* across one integer boundary in exactly one coordinate switches the color.
C18_CheckersAlternate ==
    (pc = "color_at" /\ patterns[1].kind = "Checkers3D") =>
        /\ output # Panic
        /\ output.val = IF IsEven(Floor(input.x) + Floor(input.y) + Floor(input.z))
                        THEN color_at(patterns[1].pattern_a, input)
                        ELSE color_at(patterns[1].pattern_b, input)
        /\ HasTwoColors(patterns[1]) =>
              \A q \in PatternPoints :
                  AcrossOneBoundary(input, q) => color_at(patterns[1], q) # output.val

\* checkers of two colors where the sum of the floors is negative and odd,
\* while the floor of the sum of the coordinates is even
C18_Witness ==
    /\ pc = "color_at"
    /\ patterns[1].kind = "Checkers3D"
    /\ HasTwoColors(patterns[1])
    /\ Floor(input.x) + Floor(input.y) + Floor(input.z) = -1
    /\ Floor(RAdd(input.x, RAdd(input.y, input.z))) = 0
    /\ output = Return(patterns[1].pattern_b.color)

\* M * p for a 4 x 4 matrix M and the point p = (x, y, z, 1)
Applied(M, p) ==
    Point(RAdd(RAdd(RMul(get(M, 0, 0), p.x), RMul(get(M, 0, 1), p.y)), RAdd(RMul(get(M, 0, 2), p.z), get(M, 0, 3))),
          RAdd(RAdd(RMul(get(M, 1, 0), p.x), RMul(get(M, 1, 1), p.y)), RAdd(RMul(get(M, 1, 2), p.z), get(M, 1, 3))),
          RAdd(RAdd(RMul(get(M, 2, 0), p.x), RMul(get(M, 2, 1), p.y)), RAdd(RMul(get(M, 2, 2), p.z), get(M, 2, 3))))

\* the inverse of a translation or a scaling
InverseOf(M) ==
    CHOOSE N \in {translation(RNeg(get(M, 0, 3)), RNeg(get(M, 1, 3)), RNeg(get(M, 2, 3))),
                  scaling(RDiv(Num(1), get(M, 0, 0)), RDiv(Num(1), get(M, 1, 1)), RDiv(Num(1), get(M, 2, 2)))} :
        multiply(M, N) = Ok(identity(4))

\* C19: color_at_object(object, worldPoint) is color_at(P^-1 * (O^-1 *
\* worldPoint)) for the transformation O of the object and P of the pattern
\* that are in force at the call: the object's inverse first, the pattern's
\* second.
C19_ColorAtObject ==
    pc = "color_at_object" =>
        output = Returned(color_at(patterns[1],
                     Applied(InverseOf(pattern_transformation(patterns[1])),
                             Applied(InverseOf(heap[1].transformation), input))))

\* stripes after both transformations were changed, at a point where the
\* order of the two inverses decides the color
C19_Witness ==
    /\ pc = "color_at_object"
    /\ patterns[1].kind = "Stripes"
    /\ heap[1].transformation = scaling(Num(2), Num(2), Num(2))
    /\ pattern_transformation(patterns[1]) = translation(Rat(1, 2), Num(0), Num(0))
    /\ output # Panic
    /\ output.val # color_at(patterns[1],
                        Applied(InverseOf(heap[1].transformation),
                                Applied(InverseOf(pattern_transformation(patterns[1])), input)))

-----------------------------------------------------------------------------
(* src/canvas.rs and src/camera.rs                                         *)

\* Canvas::with_background: width columns of height cells each
with_background(width, height, bg_color) ==
    [width |-> width, height |-> height,
     pixels |-> [x \in 1..width |-> [y \in 1..height |-> bg_color]]]

\* Canvas::new
CanvasNew(width, height) == with_background(width, height, black)

\* Canvas::get_dimension
get_dimension(cv) == <<cv.width, cv.height>>

\* Canvas::get_pixel: self.pixels[x][y], which panics outside of the vectors
get_pixel(cv, x, y) ==
    IF x < Len(cv.pixels) /\ y < Len(cv.pixels[x + 1])
    THEN cv.pixels[x + 1][y + 1]
    ELSE Panic

\* Canvas::set_pixel: self.pixels[x][y] = c, which panics outside of the
\* vectors
set_pixel(cv, x, y, c) ==
    IF x < Len(cv.pixels) /\ y < Len(cv.pixels[x + 1])
    THEN [cv EXCEPT !.pixels[x + 1][y + 1] = c]
    ELSE Panic

\* Camera::init_sizes, from half_view = (field_of_view / 2.0).tan() on
InitSizes(half_view, aspect, hsize) ==
    IF RGe(aspect, Num(1))
    THEN <<RDiv(RMul(half_view, Num(2)), Num(hsize)),
           half_view, RDiv(half_view, aspect)>>
    ELSE <<RDiv(RMul(RMul(half_view, aspect), Num(2)), Num(hsize)),
           RMul(half_view, aspect), half_view>>

\* Camera::init_sizes.  The tangent has no rational value in general: the
\* model names a field of view by the tangent of its half.
init_sizes(half_view, hsize, vsize) ==
    InitSizes(half_view, RDiv(Num(hsize), Num(vsize)), hsize)

\* the Camera struct
CameraOf(hsize, vsize, half_view, trans, sizes) ==
    [hsize |-> hsize, vsize |-> vsize, field_of_view |-> half_view,
     transform |-> trans, pixel_size |-> sizes[1], half_width |-> sizes[2],
     half_height |-> sizes[3]]

\* Camera::new
CameraNew(hsize, vsize, half_view) ==
    CameraOf(hsize, vsize, half_view, identity(4),
             init_sizes(half_view, hsize, vsize))

\* Camera::set_transformation
set_transformation(c, t) == [c EXCEPT !.transform = t]

\* ray_for_pixel from the inverse t of the transform on
RayForPixelFrom(pixel_pt, origin) ==
    IF pixel_pt = Panic \/ origin = Panic THEN Panic
    ELSE Ray(origin, normalize(TSub(pixel_pt, origin)))

\* ray_for_pixel once world_x and world_y are known
RayForPixelAt(world_x, world_y, t) ==
    RayForPixelFrom(unwrap(transform(Point(world_x, world_y, Num(-1)), TRUE, t)),
                    unwrap(transform(Point(Num(0), Num(0), Num(0)), TRUE, t)))

\* Camera::ray_for_pixel
ray_for_pixel(c, x, y) ==
    RayForPixelAt(
        RSub(c.half_width, RMul(RAdd(Num(x), Rat(1, 2)), c.pixel_size)),
        RSub(c.half_height, RMul(RAdd(Num(y), Rat(1, 2)), c.pixel_size)),
        unwrap(invert(c.transform)))

\* rotation_x(phi), of the cosine and the sine of phi
rotation_x(cos_phi, sin_phi) ==
    set(set(set(set(identity(4), 1, 1, cos_phi), 1, 2, RNeg(sin_phi)),
            2, 1, sin_phi), 2, 2, cos_phi)

-----------------------------------------------------------------------------
(* Camera::render, one step for each turn of its loops.                    *)

\* the largest hsize and vsize of the cameras
MaxSize == 3

\* the view from (0, 5, 0) down the y axis:
\* rotation_x(PI / 2.0) * translation(0.0, -5.0, 0.0)
ViewDown ==
    unwrap(multiply(rotation_x(Num(0), Num(1)),
                    translation(Num(0), Num(-5), Num(0))))

\* the view from (0, -5, 0) up the y axis:
\* rotation_x(-PI / 2.0) * translation(0.0, 5.0, 0.0)
ViewUp ==
    unwrap(multiply(rotation_x(Num(0), Num(-1)),
                    translation(Num(0), Num(5), Num(0))))

\* the length of every ray of the camera has a rational value
HasRationalRays(c) ==
    \A x \in Range0(c.hsize), y \in Range0(c.vsize) :
        REq(dot(ray_for_pixel(c, x, y).direction,
                ray_for_pixel(c, x, y).direction), Num(1))

\* the cameras of the model: every size up to MaxSize, fields of view with
\* the half tangents 1, 2, 4 and 8/3, from above and from below the objects.
\* The middle ray of a camera runs along the y axis, every other ray misses
\* the spheres.
RenderCameras ==
    {c \in {set_transformation(CameraNew(sz[1], sz[2], half_view), t) :
                sz \in (0..MaxSize) \X (0..MaxSize),
                half_view \in {Num(1), Num(2), Num(4), Rat(8, 3)},
                t \in {ViewDown, ViewUp}} :
        HasRationalRays(c)}

\* the worlds to render: the spheres 1 and 3 of the heap, with or without a
\* light
InitRender ==
    /\ heap = Allocated
    /\ patterns = AllocatedPatterns
    /\ objects \in {<<>>, <<1>>, <<3>>, <<1, 3>>}
    /\ light \in {None} \cup Lights
    /\ pc = "idle"
    /\ input = None
    /\ output = None
    /\ intersected = 0
    /\ NoRender

\* let mut ret = Canvas::new(self.hsize, self.vsize)
RenderBegin(c) ==
    /\ pc = "idle"
    /\ cam' = c
    /\ canvas' = CanvasNew(c.hsize, c.vsize)
    /\ pixel' = [x |-> 0, y |-> 0]
    /\ writes' = <<>>
    /\ pc' = "render_loop"
    /\ input' = c
    /\ output' = None
    /\ UNCHANGED <<heap, patterns, objects, light, intersected>>

\* world.color_at_ray_hit(&ray) for the ray of ray_for_pixel
RenderColor(h, ps, objs, lt, ray) ==
    IF ray = Panic THEN Panic ELSE color_at_ray_hit(h, ps, objs, lt, ray)

\* ret.set_pixel(x, y, world.color_at_ray_hit(&ray))
RenderSetPixel(cv, x, y, color) ==
    IF color = Panic THEN Panic ELSE set_pixel(cv, x, y, color)

\* the body of the loops aborts: render returns nothing
RenderAbort ==
    /\ output' = Panic
    /\ pc' = "render"
    /\ UNCHANGED <<canvas, pixel, writes>>

\* the body of the loops has written the cell: on to the next x
RenderWritten(ret) ==
    /\ canvas' = ret
    /\ writes' = Append(writes, <<pixel.x, pixel.y>>)
    /\ pixel' = [pixel EXCEPT !.x = pixel.x + 1]
    /\ UNCHANGED <<output, pc>>

\* one turn of for x in 0..self.hsize
RenderPixel ==
    /\ pc = "render_loop"
    /\ pixel.y < cam.vsize
    /\ pixel.x < cam.hsize
    /\ \E ret \in {RenderSetPixel(canvas, pixel.x, pixel.y,
                       RenderColor(heap, patterns, objects, light,
                                   ray_for_pixel(cam, pixel.x, pixel.y)))} :
           IF ret = Panic THEN RenderAbort ELSE RenderWritten(ret)
    /\ UNCHANGED <<heap, patterns, objects, light, input, intersected, cam>>

\* for x in 0..self.hsize is through: the next turn of for y in 0..self.vsize
RenderNextRow ==
    /\ pc = "render_loop"
    /\ pixel.y < cam.vsize
    /\ pixel.x >= cam.hsize
    /\ pixel' = [x |-> 0, y |-> pixel.y + 1]
    /\ UNCHANGED <<heap, patterns, objects, light, pc, input, output,
                   intersected, cam, canvas, writes>>

\* for y in 0..self.vsize is through: render returns ret
RenderReturn ==
    /\ pc = "render_loop"
    /\ pixel.y >= cam.vsize
    /\ output' = Return(canvas)
    /\ pc' = "render"
    /\ UNCHANGED <<heap, patterns, objects, light, input, intersected, cam,
                   canvas, pixel, writes>>

NextRender ==
    \/ \E c \in RenderCameras : RenderBegin(c)
    \/ RenderPixel
    \/ RenderNextRow
    \/ RenderReturn

SpecRender == InitRender /\ [][NextRender]_vars

\* the cells of a canvas in row-major order: all x of row y before row y + 1
RowMajor(hsize, vsize) ==
    [k \in 1..(hsize * vsize) |-> <<(k - 1) % hsize, (k - 1) \div hsize>>]

IsPrefixOf(s, t) == Len(s) <= Len(t) /\ \A k \in 1..Len(s) : s[k] = t[k]

\* the canvas holds in every cell the color of the ray of the cell
HoldsColors(cv, c) ==
    \A x \in Range0(c.hsize), y \in Range0(c.vsize) :
        get_pixel(cv, x, y) =
            color_at_ray_hit(heap, patterns, objects, light, ray_for_pixel(c, x, y))

\* render wrote in row-major order so far, and what it returned is a canvas
\* of hsize x vsize whose every cell was written once with the color of its ray
RenderedAsPromised ==
    /\ pc \in {"render_loop", "render"} =>
           IsPrefixOf(writes, RowMajor(cam.hsize, cam.vsize))
    /\ pc = "render" =>
           /\ output # Panic
           /\ writes = RowMajor(cam.hsize, cam.vsize)
           /\ get_dimension(output.val) = <<cam.hsize, cam.vsize>>
           /\ HoldsColors(output.val, cam)

\* C20: Camera::render(world) returns, for every hsize and vsize >= 0, a
\* canvas of width hsize and height vsize in which every cell (x, y) was
\* written exactly once with world.color_at_ray_hit(ray_for_pixel(x, y)); the
\* cells are written in row-major order and no write is outside of the canvas.
\* It fails in a world without a light as soon as a ray hits an object:
\* color_at_ray_hit aborts in shade_hit, and render returns nothing.
C20_RenderFillsCanvas == RenderedAsPromised

\* C20, what holds: with a light in the world, or with no object in the view,
\* render keeps the whole of the promise
C20_LitRenderFillsCanvas ==
    (light # None \/ objects = <<>>) => RenderedAsPromised

\* C20, what holds: the loops of render are bounded for every hsize and
\* vsize, and each step of theirs moves on in the row-major order
C20_LoopsBounded ==
    pc = "render_loop" =>
        /\ pixel.x <= cam.hsize
        /\ pixel.y <= cam.vsize
        /\ Len(writes) = pixel.y * cam.hsize + pixel.x

\* C20: a camera of 3 x 1 has rendered a lit world whose sphere is in the
\* middle cell
C20_LitWitness ==
    /\ pc = "render"
    /\ output # Panic
    /\ light # None
    /\ cam.hsize = 3
    /\ get_pixel(output.val, 1, 0) # black
    /\ get_pixel(output.val, 0, 0) = black

-----------------------------------------------------------------------------
(* A World without a light *)

\* C29: in a World that holds objects and whose light was never set,
\* color_at_ray_hit(ray) completes and returns a color for every ray, the
\* rays that hit an object included.  It fails: shade_hit unwraps the light.
C29_NoLightReturnsColor ==
    (pc = "color_at_ray_hit" /\ light = None /\ objects # <<>>) =>
        output # Panic

\* C29, what holds: without a light color_at_ray_hit returns black for the
\* rays that hit nothing, and aborts for every ray that has a hit
C29_NoLightAbortsOnHit ==
    (pc = "color_at_ray_hit" /\ light = None) =>
        output = (IF NearestHit(Concatenation(input, Len(objects))) = 0
                  THEN Return(black) ELSE Panic)

-----------------------------------------------------------------------------
(* Ties across objects *)

\* the places in the World of the objects that ray meets at t
MeetingAt(ray, t) ==
    {k \in 1..Len(objects) :
        \E i \in 1..Len(intersect(heap[objects[k]], ray)) :
            REq(intersect(heap[objects[k]], ray)[i], t)}

\* the smallest of a set of places
First(places) == CHOOSE k \in places : \A j \in places : k <= j

\* several different objects share the smallest t >= 0 of the ray
IsTied(ray, cat) ==
    /\ NearestHit(cat) # 0
    /\ \E k, j \in MeetingAt(ray, cat[NearestHit(cat)].t) :
           objects[k] # objects[j]

\* shade_hit of the intersection of ray at t with the object at place k
ShadedAt(ray, t, k) ==
    Returned(shade_hit(heap, patterns, objects, light,
                 prepare_computations(heap, Intersection(ray, t, objects[k]))))

\* shade_hit of the tied object that was added first
ShadedFirstAdded(ray, t) == ShadedAt(ray, t, First(MeetingAt(ray, t)))

\* C25: when the smallest non-negative t of a ray is attained by intersections
\* of two or more different objects of a World, color_at_ray_hit shades the
\* intersection of the object that was added to the World first.
C25_TieShadesFirstAdded ==
    (pc = "color_at_ray_hit"
     /\ IsTied(input, Concatenation(input, Len(objects)))) =>
        output = ShadedFirstAdded(input,
                     Concatenation(input, Len(objects))[
                         NearestHit(Concatenation(input, Len(objects)))].t)

\* a tie in a World with a light, where the tied objects would be shaded in
\* different colors
C25_Witness ==
    /\ pc = "color_at_ray_hit"
    /\ light # None
    /\ output # Panic
    /\ IsTied(input, Concatenation(input, Len(objects)))
    /\ \E k \in MeetingAt(input, Concatenation(input, Len(objects))[
                    NearestHit(Concatenation(input, Len(objects)))].t) :
           ShadedAt(input, Concatenation(input, Len(objects))[
                    NearestHit(Concatenation(input, Len(objects)))].t, k)
               # output

-----------------------------------------------------------------------------
(* The World and its caller again, every call now leaving its name in pc:  *)
(* add_object, set_light, get_objects and contains_object next to the      *)
(* calls that resolve rays.                                                *)

\* derive(PartialEq) for Point
PointEq(a, b) == REq(a.x, b.x) /\ REq(a.y, b.y) /\ REq(a.z, b.z)

\* derive(PartialEq) for Sphere: origin, radius, transformation and material,
\* the last by Material::eq
sphere_eq(a, b) ==
    /\ PointEq(a.origin, b.origin)
    /\ REq(a.radius, b.radius)
    /\ MatrixEq(a.transformation, b.transformation)
    /\ material_eq(a.material, b.material)

\* the loop of contains_object::<Sphere> from the k-th object on
RECURSIVE ContainsObjectFrom(_, _, _, _)
ContainsObjectFrom(h, objs, an_object, k) ==
    IF k > Len(objs) THEN FALSE
    ELSE IF h[objs[k]].kind = "Sphere" /\ sphere_eq(an_object, h[objs[k]]) THEN TRUE
    ELSE ContainsObjectFrom(h, objs, an_object, k + 1)

\* World::contains_object::<Sphere>: the downcast of an_object is unwrapped;
\* what the call leaves in output
contains_object(h, objs, addr) ==
    IF h[addr].kind # "Sphere" THEN Panic
    ELSE Return(ContainsObjectFrom(h, objs, h[addr], 1))

\* World::get_objects
get_objects(objs) == objs

\* the objects the caller allocated: 1 and 2 are two unit spheres, alike in
\* every field; 3 is a striped sphere of radius 2; 4 is a plane at y = -1
WorldAllocated ==
    <<new_unit,
      new_unit,
      change_material(
          change_transformation(new_unit, scaling(Num(2), Num(2), Num(2))),
          StripedMaterial),
      change_transformation(Plane, translation(Num(0), Num(-1), Num(0)))>>

\* the most objects the World of this specification holds
MaxAdded == 2

\* the rays of this specification: from below and from inside the objects
WorldRays ==
    {Ray(OnAxis(Num(-5)), Vector(Num(0), Num(1), Num(0))),
     Ray(OnAxis(Num(0)), Vector(Num(0), Num(1), Num(0)))}

\* World::new()
InitWorld ==
    /\ heap = WorldAllocated
    /\ patterns = AllocatedPatterns
    /\ objects = <<>>
    /\ light = None
    /\ pc = "idle"
    /\ input = None
    /\ output = None
    /\ intersected = 0
    /\ NoRender

\* World::add_object as it would be if the World held every object once
WorldAddObjectOnce(addr) ==
    /\ pc = "idle"
    /\ Len(objects) < MaxAdded
    /\ objects' = IF \E k \in 1..Len(objects) : objects[k] = addr
                  THEN objects ELSE Append(objects, addr)
    /\ pc' = "add_object"
    /\ input' = Ref(addr)
    /\ output' = None
    /\ UNCHANGED <<heap, patterns, light, intersected>>
    /\ UNCHANGED render_vars

\* World::add_object
WorldAddObject(addr) ==
    /\ pc = "idle"
    /\ Len(objects) < MaxAdded
    /\ objects' = Append(objects, addr)
    /\ pc' = "add_object"
    /\ input' = Ref(addr)
    /\ output' = None
    /\ UNCHANGED <<heap, patterns, light, intersected>>
    /\ UNCHANGED render_vars

\* World::set_light
WorldSetLight(lt) ==
    /\ pc = "idle"
    /\ light' = lt
    /\ pc' = "set_light"
    /\ input' = lt
    /\ output' = None
    /\ UNCHANGED <<heap, patterns, objects, intersected>>
    /\ UNCHANGED render_vars

\* World::get_objects
WorldGetObjects ==
    /\ pc = "idle"
    /\ output' = Return(get_objects(objects))
    /\ pc' = "get_objects"
    /\ input' = None
    /\ UNCHANGED <<heap, patterns, objects, light, intersected>>
    /\ UNCHANGED render_vars

\* World::contains_object::<Sphere>
WorldContainsObject(addr) ==
    /\ pc = "idle"
    /\ output' = contains_object(heap, objects, addr)
    /\ pc' = "contains_object"
    /\ input' = Ref(addr)
    /\ UNCHANGED <<heap, patterns, objects, light, intersected>>
    /\ UNCHANGED render_vars

NextWorld ==
    \/ \E addr \in DOMAIN heap : WorldAddObject(addr)
    \/ \E lt \in Lights : WorldSetLight(lt)
    \/ WorldGetObjects
    \/ \E addr \in DOMAIN heap : WorldContainsObject(addr)
    \/ \E ray \in WorldRays : FindIntersections(ray)
    \/ \E ray \in WorldRays : ColorAtRayHit(ray)
    \/ Resume

SpecWorld == InitWorld /\ [][NextWorld]_vars

\* a step of the World's caller is the call of add_object
IsAddObject == pc = "idle" /\ pc' = "add_object"

\* a step of the World's caller is the call of set_light
IsSetLight == pc = "idle" /\ pc' = "set_light"

\* what a step does to the objects and the light of the World
WorldStep ==
    /\ IsAddObject => objects' = Append(objects, input'.ref)
    /\ ~IsAddObject => objects' = objects
    /\ IsSetLight => light' = input' /\ light' # None
    /\ ~IsSetLight => light' = light
    /\ pc' = "get_objects" => output' = Return(objects')

\* C27: World::new() has no objects and no light; add_object appends its
\* object to the objects, whatever they hold already, and no other call
\* changes them, find_intersections and color_at_ray_hit included, so that
\* get_objects() is the sequence of the added objects in call order; set_light
\* makes its light the light of the World and no other call changes the light.
C27_WorldState ==
    /\ objects = <<>>
    /\ light = None
    /\ [][WorldStep]_vars

\* get_objects in a World with a light to which one object was added twice
C27_Witness ==
    /\ pc = "get_objects"
    /\ light # None
    /\ Len(objects) = 2
    /\ objects[1] = objects[2]
    /\ output = Return(objects)

\* the object at addr was added to the World
WasAdded(addr) == \E k \in 1..Len(objects) : objects[k] = addr

\* C23: after world.add_object(s) for a Sphere s, contains_object::<Sphere>(s)
\* returns true, whatever the transformation and the material of s, a material
\* with a pattern included, and whatever was added or set afterwards.  It
\* fails for a sphere whose material has a pattern: Material::eq is false for
\* two materials that share their pattern.
C23_AddedIsContained ==
    (pc = "contains_object" /\ heap[input.ref].kind = "Sphere"
     /\ WasAdded(input.ref)) =>
        output = Return(TRUE)

\* C23, what holds: an added sphere whose material has no pattern is contained
C23_AddedPlainIsContained ==
    (pc = "contains_object" /\ heap[input.ref].kind = "Sphere"
     /\ WasAdded(input.ref) /\ heap[input.ref].material.pattern = None) =>
        output = Return(TRUE)

\* C24: contains_object(o) is true only if the very object o was added to the
\* World: a Sphere that was never added is not reported as a member, be it
\* alike in origin, radius, transformation and material to an added one.  It
\* fails: the spheres are compared field by field.
C24_ContainedWasAdded ==
    (pc = "contains_object" /\ output = Return(TRUE)) => WasAdded(input.ref)

\* C24, what holds: contains_object(o) is true only if a sphere equal to o by
\* Sphere::eq was added
C24_ContainedHasEqual ==
    (pc = "contains_object" /\ output = Return(TRUE)) =>
        \E k \in 1..Len(objects) :
            /\ heap[objects[k]].kind = "Sphere"
            /\ sphere_eq(heap[input.ref], heap[objects[k]])

-----------------------------------------------------------------------------
(* An object that the caller shares with the World: the caller allocates   *)
(* one object, 1 of the heap, and resolves rays in the World; once it has  *)
(* handed the object to the World it goes on changing it, through its own  *)
(* handle and through the World's.                                         *)

\* Object3D::material: a clone of the material
material(object) == object.material

\* Object3D::transformation: a clone of the matrix
transformation(object) == object.transformation

\* the materials the caller changes to
SharedMaterials == {DefaultMaterial, StripedMaterial}

\* Sphere::new_unit(), Sphere::new(Point::new(0.0, 1.0, 0.0), 2.0) and
\* Plane::new(), in a World with or without a light
InitShared ==
    /\ heap \in {<<new_unit>>, <<Sphere(Point(Num(0), Num(1), Num(0)), Num(2))>>, <<Plane>>}
    /\ patterns = AllocatedPatterns
    /\ objects = <<>>
    /\ light \in {None} \cup Lights
    /\ pc = "idle"
    /\ input = None
    /\ output = None
    /\ intersected = 0
    /\ NoRender

\* World::add_object as it would be if the World kept a copy of the object
SharedAddObjectCopy ==
    /\ pc = "idle"
    /\ objects = <<>>
    /\ heap' = Append(heap, heap[1])
    /\ objects' = <<Len(heap) + 1>>
    /\ pc' = "add_object"
    /\ input' = Ref(1)
    /\ output' = None
    /\ UNCHANGED <<patterns, light, intersected>>
    /\ UNCHANGED render_vars

\* World::add_object(&object): the World holds a clone of the Rc
SharedAddObject ==
    /\ pc = "idle"
    /\ objects = <<>>
    /\ objects' = <<1>>
    /\ pc' = "add_object"
    /\ input' = Ref(1)
    /\ output' = None
    /\ UNCHANGED <<heap, patterns, light, intersected>>
    /\ UNCHANGED render_vars

\* object.change_transformation(t) through the handle to addr
SharedChangeTransformation(addr, t) ==
    /\ pc = "idle"
    /\ heap' = [heap EXCEPT ![addr] = change_transformation(heap[addr], t)]
    /\ pc' = "change_transformation"
    /\ input' = t
    /\ output' = None
    /\ UNCHANGED <<patterns, objects, light, intersected>>
    /\ UNCHANGED render_vars

\* object.change_material(m) through the handle to addr
SharedChangeMaterial(addr, m) ==
    /\ pc = "idle"
    /\ heap' = [heap EXCEPT ![addr] = change_material(heap[addr], m)]
    /\ pc' = "change_material"
    /\ input' = m
    /\ output' = None
    /\ UNCHANGED <<patterns, objects, light, intersected>>
    /\ UNCHANGED render_vars

\* the caller's handle and the handles of world.get_objects()
Handles == {1} \cup {get_objects(objects)[k] : k \in 1..Len(objects)}

NextShared ==
    \/ SharedAddObject
    \/ objects # <<>> /\ \E addr \in Handles, t \in Transformations : SharedChangeTransformation(addr, t)
    \/ objects # <<>> /\ \E addr \in Handles, m \in SharedMaterials : SharedChangeMaterial(addr, m)
    \/ \E ray \in WorldRays : FindIntersections(ray)
    \/ \E ray \in WorldRays : ColorAtRayHit(ray)
    \/ \E pt \in Points : IsShadowed(pt)
    \/ Resume

SpecShared == InitShared /\ [][NextShared]_vars

\* the caller's object as it was allocated
AsAllocated(object) ==
    change_material(change_transformation(object, identity(4)), DefaultMaterial)

\* C26: the World shares the object with its caller: what find_intersections,
\* is_shadowed and color_at_ray_hit return in a World that was handed the
\* caller's object is what they compute from that object as it is when they
\* are called, whatever change_material and change_transformation did to it
\* since add_object; the World works on no copy taken at add_object time.
C26_SharedByReference ==
    objects # <<>> =>
        /\ pc = "find_intersections" =>
               output = ReturnedVec(WorldFindIntersections(heap, <<1>>, input))
        /\ pc = "color_at_ray_hit" =>
               output = Returned(color_at_ray_hit(heap, patterns, <<1>>, light, input))
        /\ pc = "is_shadowed" =>
               output = is_shadowed(heap, <<1>>, light, input)

\* a ray resolved in a lit World whose object was changed after add_object:
\* the color is not the one of the object as it was allocated
C26_Witness ==
    /\ pc = "color_at_ray_hit"
    /\ objects # <<>>
    /\ light # None
    /\ heap[1] # AsAllocated(heap[1])
    /\ output # Panic
    /\ output # Returned(color_at_ray_hit(<<AsAllocated(heap[1])>>, patterns,
                                          <<1>>, light, input))

\* a step of the caller is the call of change_transformation
IsChangeTransformation == pc = "idle" /\ pc' = "change_transformation"

\* a step of the caller is the call of change_material
IsChangeMaterial == pc = "idle" /\ pc' = "change_material"

\* what a step does to the object at addr
ObjectStep(addr) ==
    /\ IsChangeTransformation =>
           /\ MatrixEq(transformation(heap'[addr]), input')
           /\ material(heap'[addr]) = material(heap[addr])
    /\ IsChangeMaterial =>
           /\ material(heap'[addr]) = input'
           /\ transformation(heap'[addr]) = transformation(heap[addr])
    /\ heap'[addr].kind = heap[addr].kind
    /\ heap[addr].kind = "Sphere" =>
           /\ heap'[addr].origin = heap[addr].origin
           /\ heap'[addr].radius = heap[addr].radius

\* C28: a new Sphere or Plane has the 4x4 identity transformation and the
\* default material; change_transformation(t) makes transformation() return a
\* matrix equal to t and leaves material() unchanged; change_material(m) makes
\* material() return a material with the field values of m and leaves
\* transformation() unchanged; the origin and the radius of a Sphere never
\* change.
C28_MutationFrame ==
    /\ transformation(heap[1]) = identity(4)
    /\ material(heap[1]) = DefaultMaterial
    /\ [][ObjectStep(1)]_vars

\* an object whose transformation and whose material were both changed, the
\* material last
C28_Witness ==
    /\ pc = "change_material"
    /\ material(heap[1]) = StripedMaterial
    /\ transformation(heap[1]) = translation(Num(0), Num(-1), Num(0))

-----------------------------------------------------------------------------
(* The scene and its readers: a World that was set up before, the calls    *)
(* that resolve rays in it, and render.                                    *)

\* World::find_intersections as it would be if it drained the objects it
\* iterates over
FindIntersectionsDraining(ray) ==
    /\ pc = "idle"
    /\ output' = ReturnedVec(WorldFindIntersections(heap, objects, ray))
    /\ pc' = "find_intersections"
    /\ input' = ray
    /\ intersected' = Len(objects)
    /\ objects' = <<>>
    /\ UNCHANGED <<heap, patterns, light>>
    /\ UNCHANGED render_vars

\* World::find_intersections called on the scene
SceneFindIntersections(ray) == FindIntersections(ray)

\* the caller takes the value a call returned, the canvas of render included
SceneResume ==
    /\ pc \notin {"idle", "render_loop"}
    /\ output # Panic
    /\ pc' = "idle"
    /\ input' = None
    /\ output' = None
    /\ intersected' = 0
    /\ cam' = None
    /\ canvas' = None
    /\ pixel' = None
    /\ writes' = <<>>
    /\ UNCHANGED <<heap, patterns, objects, light>>

NextScene ==
    \/ \E ray \in Rays : SceneFindIntersections(ray)
    \/ \E ray \in Rays : ColorAtRayHit(ray)
    \/ \E pt \in Points : IsShadowed(pt)
    \/ \E c \in RenderCameras : RenderBegin(c)
    \/ RenderPixel
    \/ RenderNextRow
    \/ RenderReturn
    \/ SceneResume

SpecScene == InitRender /\ [][NextScene]_vars

\* what a step leaves alone: the objects and the light of the World, the
\* transformation and the material of every object, the patterns, and, while
\* render runs, every field of the Camera
SceneStep ==
    /\ objects' = objects
    /\ light' = light
    /\ \A addr \in DOMAIN heap :
           /\ transformation(heap'[addr]) = transformation(heap[addr])
           /\ material(heap'[addr]) = material(heap[addr])
    /\ heap' = heap
    /\ \A addr \in DOMAIN patterns :
           pattern_transformation(patterns'[addr]) = pattern_transformation(patterns[addr])
    /\ patterns' = patterns
    /\ pc = "render_loop" => cam' = cam

\* C21: rendering never mutates the scene: find_intersections, is_shadowed,
\* color_at_ray_hit (with shade_hit and lighting in it) and render (with
\* ray_for_pixel in it) leave the World's object list and light, every
\* object's transformation and material, every pattern's transformation and
\* all Camera fields unchanged; render writes the canvas only.
C21_SceneUnchanged == [][SceneStep]_vars

\* render has returned the canvas of a 1 x 3 camera over a lit World of two
\* objects
C21_Witness ==
    /\ pc = "render"
    /\ output # Panic
    /\ light # None
    /\ Len(objects) = 2
    /\ cam.vsize = 3
    /\ Len(writes) = 3
    /\ get_pixel(canvas, 0, 1) # black

-----------------------------------------------------------------------------
(* Chains of transformations *)

\* Mul for Matrix as it would be if it multiplied from the other side
mul_reversed(self, rhs) == unwrap(multiply(rhs, self))

\* impl Mul<Matrix<T>> for Matrix<T>: self.multiply(&rhs).unwrap()
mul(self, rhs) == unwrap(multiply(self, rhs))

\* the transformations of the chains: built by translation, scaling and
\* rotation_x(PI / 2.0), whose cosine and sine are 0 and 1
ChainTransformations ==
    {identity(4),
     translation(Num(1), Num(-1), Num(2)),
     scaling(Num(2), Num(3), Rat(1, 2)),
     rotation_x(Num(0), Num(1))}

\* the coordinates of the points and vectors of the chains
ChainTuples ==
    {Point(Num(1), Num(0), Num(1)), Point(Num(-2), Num(3), Rat(1, 2)),
     Point(Num(0), Num(0), Num(0))}

\* a, b, c and the point (isPoint) or vector p
InitChain ==
    /\ heap = Allocated
    /\ patterns = AllocatedPatterns
    /\ objects = <<>>
    /\ light = None
    /\ pc = "idle"
    /\ input \in [a : ChainTransformations, b : ChainTransformations,
                  c : ChainTransformations, p : ChainTuples, isPoint : BOOLEAN]
    /\ output = None
    /\ intersected = 0
    /\ NoRender

\* transform(p, &(c * b * a))
TransformComposed ==
    /\ pc = "idle"
    /\ output' = Returned(unwrap(transform(input.p, input.isPoint,
                                           mul(mul(input.c, input.b), input.a))))
    /\ pc' = "transform"
    /\ UNCHANGED <<heap, patterns, objects, light, input, intersected>>
    /\ UNCHANGED render_vars

NextChain == TransformComposed

SpecChain == InitChain /\ [][NextChain]_vars

\* transform(transform(transform(p, a), b), c), each result unwrapped
Chained(p, isPoint, a, b, c) ==
    unwrap(transform(unwrap(transform(unwrap(transform(p, isPoint, a)),
                                      isPoint, b)),
                     isPoint, c))

\* C22: transform composition applies the rightmost factor first: for the 4x4
\* transformations a, b, c and every point or vector p,
\* transform(p, c * b * a) = transform(transform(transform(p, a), b), c).
C22_RightmostFirst ==
    pc = "transform" =>
        output = Returned(Chained(input.p, input.isPoint,
                                  input.a, input.b, input.c))

\* a chain of three transformations that do not commute, applied to a point
C22_Witness ==
    /\ pc = "transform"
    /\ input.isPoint
    /\ output # Panic
    /\ output # Returned(Chained(input.p, input.isPoint,
                                 input.c, input.b, input.a))
    /\ input.a # identity(4)
    /\ input.b # identity(4)
    /\ input.c # identity(4)

-----------------------------------------------------------------------------
(* src/core/canvas.rs and src/io.rs: the Canvas of rows and its PPM data.  *)
(* A String is the sequence of its characters.                             *)

\* const MAX_COLOR_VALUE: u32 = 255
MAX_COLOR_VALUE == 255

\* const MAX_LINE_SIZE: usize = 70
MAX_LINE_SIZE == 70

\* core::Canvas::new_with_color: height rows of width pixels each
new_with_color(width, height, color) ==
    [width |-> width, height |-> height,
     pixels |-> [row \in 1..height |-> [col \in 1..width |-> color]]]

\* core::Canvas::get_pixel: self.pixels[row][col]
core_get_pixel(cv, row, col) ==
    IF row < Len(cv.pixels) /\ col < Len(cv.pixels[row + 1])
    THEN cv.pixels[row + 1][col + 1]
    ELSE Panic

\* core::Canvas::set_pixel: self.pixels[row][col] = pixel.clone()
core_set_pixel(cv, row, col, color) ==
    IF row < Len(cv.pixels) /\ col < Len(cv.pixels[row + 1])
    THEN [cv EXCEPT !.pixels[row + 1][col + 1] = color]
    ELSE Panic

\* f64::round of a value that is not negative: half away from zero
RRound(a) == (2 * a.n + a.d) \div (2 * a.d)

\* the closure of color_to_scaled_rgb for one value that is not NaN
ScaledValue(val, max_color_value) ==
    IF RGt(val, Num(1)) THEN max_color_value
    ELSE IF RLe(val, Num(0)) THEN 0
    ELSE RRound(RMul(val, Num(max_color_value)))

\* color_to_scaled_rgb: T::from_f64 of a NaN is None, and expect panics
color_to_scaled_rgb(color, max_color_value) ==
    IF IsNaN(color.red) \/ IsNaN(color.green) \/ IsNaN(color.blue) THEN Aborted
    ELSE <<ScaledValue(color.red, max_color_value),
           ScaledValue(color.green, max_color_value),
           ScaledValue(color.blue, max_color_value)>>

\* the decimal digits
DigitChars == <<"0", "1", "2", "3", "4", "5", "6", "7", "8", "9">>

\* format!("{scaled_value}") of an unsigned integer
RECURSIVE Format(_)
Format(value) ==
    IF value < 10 THEN <<DigitChars[value + 1]>>
    ELSE Append(Format(value \div 10), DigitChars[(value % 10) + 1])

\* ret and current_line of canvas_to_ppm_data
PpmState(ret, current_line) == [ret |-> ret, current_line |-> current_line]

\* the body of for scaled_value in scaled_values as it would be if the space
\* were not counted
PushValueUncounted(acc, value_str) ==
    IF Len(acc.current_line) + Len(value_str) <= MAX_LINE_SIZE
    THEN PpmState(acc.ret,
                  (IF acc.current_line # <<>>
                   THEN Append(acc.current_line, " ") ELSE <<>>) \o value_str)
    ELSE PpmState(Append(acc.ret \o acc.current_line, "\n"), value_str)

\* the body of for scaled_value in scaled_values
PushValue(acc, value_str) ==
    IF Len(acc.current_line) + Len(value_str) + 1 <= MAX_LINE_SIZE
    THEN PpmState(acc.ret,
                  (IF acc.current_line # <<>>
                   THEN Append(acc.current_line, " ") ELSE <<>>) \o value_str)
    ELSE PpmState(Append(acc.ret \o acc.current_line, "\n"), value_str)

\* for scaled_value in scaled_values
PushValues(acc, scaled_values) ==
    IF acc = Panic \/ scaled_values = Aborted THEN Panic
    ELSE PushValue(PushValue(PushValue(acc, Format(scaled_values[1])),
                             Format(scaled_values[2])),
                   Format(scaled_values[3]))

\* core_get_pixel, then color_to_scaled_rgb
ScaledPixel(color, max_color_value) ==
    IF color = Panic THEN Aborted ELSE color_to_scaled_rgb(color, max_color_value)

\* for col in 0..canvas.width(), the first k turns
RECURSIVE ColLoop(_, _, _, _, _)
ColLoop(cv, max_color_value, row, k, acc) ==
    IF k = 0 THEN acc
    ELSE PushValues(ColLoop(cv, max_color_value, row, k - 1, acc),
                    ScaledPixel(core_get_pixel(cv, row, k - 1), max_color_value))

\* if !current_line.is_empty() { .. } at the end of a row and of the data
EndRow(acc) ==
    IF acc = Panic THEN Panic
    ELSE IF acc.current_line # <<>>
    THEN PpmState(Append(acc.ret \o acc.current_line, "\n"), <<>>)
    ELSE acc

\* for row in 0..canvas.height(), the first k turns
RECURSIVE RowLoop(_, _, _)
RowLoop(cv, max_color_value, k) ==
    IF k = 0 THEN PpmState(<<>>, <<>>)
    ELSE EndRow(ColLoop(cv, max_color_value, k - 1, cv.width,
                        RowLoop(cv, max_color_value, k - 1)))

\* what canvas_to_ppm_data returns from the state after the loops
PpmDataOf(acc) == IF acc = Panic THEN Panic ELSE Return(acc.ret)

\* canvas_to_ppm_data; what the call leaves in output
canvas_to_ppm_data(cv, max_color_value) ==
    PpmDataOf(EndRow(RowLoop(cv, max_color_value, cv.height)))

\* the widest and the highest canvas written
MaxWidth == 7

MaxHeight == 2

\* colors above 1.0, below 0.0 and between, with scaled values of one, two
\* and three digits
PpmColors ==
    {Color(Rat(3, 2), Num(0), Num(0)),
     Color(Rat(-1, 2), Rat(1, 2), Num(1)),
     Color(Num(1), Rat(4, 5), Rat(3, 5)),
     Color(Rat(1, 10), Num(1), Num(1))}

\* Canvas::new_with_color(width, height, &bg), as it is or after one
\* set_pixel(row, col, &fg)
PpmCanvases ==
    {new_with_color(width, height, bg) :
        width \in 0..MaxWidth, height \in 0..MaxHeight, bg \in PpmColors}
    \cup
    UNION {{core_set_pixel(new_with_color(width, height, bg), row, col, fg) :
               row \in Range0(height), col \in Range0(width)} :
           width \in 1..MaxWidth, height \in 1..MaxHeight,
           bg \in PpmColors, fg \in PpmColors}

InitPpm ==
    /\ heap = Allocated
    /\ patterns = AllocatedPatterns
    /\ objects = <<>>
    /\ light = None
    /\ pc = "idle"
    /\ input \in PpmCanvases
    /\ output = None
    /\ intersected = 0
    /\ NoRender

\* canvas_to_ppm_data(&canvas, MAX_COLOR_VALUE)
CanvasToPpmData ==
    /\ pc = "idle"
    /\ output' = canvas_to_ppm_data(input, MAX_COLOR_VALUE)
    /\ pc' = "canvas_to_ppm_data"
    /\ UNCHANGED <<heap, patterns, objects, light, input, intersected>>
    /\ UNCHANGED render_vars

NextPpm == CanvasToPpmData

SpecPpm == InitPpm /\ [][NextPpm]_vars

\* the i-th smallest of a set of positions
Nth(positions, i) ==
    CHOOSE p \in positions : Cardinality({q \in positions : q < p}) = i - 1

\* the pieces of s between the positions of its separators, 0 and Len(s) + 1
\* standing for the two ends
SplitAt(s, positions) ==
    [i \in 1..(Cardinality(positions) - 1) |->
        SubSeq(s, Nth(positions, i) + 1, Nth(positions, i + 1) - 1)]

\* the pieces of s that sep separates
Split(s, sep) ==
    SplitAt(s, {0, Len(s) + 1} \cup {k \in 1..Len(s) : s[k] = sep})

\* a reader of decimal numbers
IsDigit(ch) == \E d \in 0..9 : DigitChars[d + 1] = ch

DigitOf(ch) == CHOOSE d \in 0..9 : DigitChars[d + 1] = ch

IsNumber(token) ==
    token # <<>> /\ \A k \in 1..Len(token) : IsDigit(token[k])

RECURSIVE Parse(_)
Parse(token) ==
    IF Len(token) = 1 THEN DigitOf(token[1])
    ELSE 10 * Parse(SubSeq(token, 1, Len(token) - 1)) + DigitOf(token[Len(token)])

\* the numbers of the first k lines, in their order
RECURSIVE NumbersOf(_, _)
NumbersOf(lines, k) ==
    IF k = 0 THEN <<>>
    ELSE NumbersOf(lines, k - 1)
         \o [i \in 1..Len(Split(lines[k], " ")) |->
                Parse(Split(lines[k], " ")[i])]

\* the scaled values of the canvas in row-major order, red, green, blue
ScaledRowMajor(cv) ==
    [k \in 1..(3 * cv.width * cv.height) |->
        color_to_scaled_rgb(
            core_get_pixel(cv, (k - 1) \div (3 * cv.width),
                           ((k - 1) % (3 * cv.width)) \div 3),
            MAX_COLOR_VALUE)[((k - 1) % 3) + 1]]

\* the lines of the data, the last piece being what follows the last newline
PpmPromised(cv, lines) ==
    /\ lines[Len(lines)] = <<>>
    /\ \A l \in 1..(Len(lines) - 1) :
           /\ Len(lines[l]) <= 70
           /\ \A i \in 1..Len(Split(lines[l], " ")) :
                  IsNumber(Split(lines[l], " ")[i])
    /\ NumbersOf(lines, Len(lines) - 1) = ScaledRowMajor(cv)
    /\ cv.width > 0 =>
           \A row \in Range0(cv.height) :
               \E l \in 0..(Len(lines) - 1) :
                   Len(NumbersOf(lines, l)) = 3 * cv.width * row

\* C30: in the data canvas_to_ppm_data returns no line is longer than 70
\* characters, every line ends with a newline, every canvas row starts on a
\* new line, and the numbers read in order, separated by spaces and newlines,
\* are the scaled red, green and blue values of the pixels in row-major
\* order, 3 * width * height of them.
C30_PpmData ==
    pc = "canvas_to_ppm_data" =>
        /\ output # Panic
        /\ PpmPromised(input, Split(output.val, "\n"))

\* a canvas of two rows that are wrapped, one of them into a line of 70
\* characters
C30_Witness ==
    /\ pc = "canvas_to_ppm_data"
    /\ output # Panic
    /\ input.height = 2
    /\ Len(Split(output.val, "\n")) = 5
    /\ \E l \in 1..4 : Len(Split(output.val, "\n")[l]) = 70

====
